---- MODULE Spec2Model ----
(***************************************************************************)
(* Model of the split control/data protocol of pedal_communication:        *)
(*   - UdpResponseProtocol.deserialize, the client's data-frame decoder    *)
(*     (specification SpecDecoder);                                        *)
(*   - UdpPedalDeviceMocker, the emulator: dispatcher, streamer threads    *)
(*     and sampler, together with the clients that talk to it              *)
(*     (specifications Spec and FairSpec), and its shutdown by dispose()   *)
(*     (specification SpecShutdown);                                       *)
(*   - TcpPedalDevice.get_next_data, the legacy client's poll              *)
(*     (specification SpecLegacy), and the bytes it takes from the stream  *)
(*     (specification SpecLegacyStream);                                   *)
(*   - TcpPedalDeviceMocker, the legacy emulator, with a polling client    *)
(*     (specification SpecLegacyEmulator);                                 *)
(*   - connect(), disconnect() and send() of the three clients             *)
(*     (specification SpecClients);                                        *)
(*   - the legacy request and the control frame on the wire                *)
(*     (specification SpecCodec);                                          *)
(*   - Data and DataCollector: the worker thread, start(), stop() and the  *)
(*     live-window read (specifications SpecCollector and                  *)
(*     FairSpecCollector).                                                 *)
(*                                                                         *)
(* Sequence ids are 32-bit in the program (mask 0xFFFFFFFF).  The model    *)
(* keeps the wrapping arithmetic but scales the modulus to SeqMod so that  *)
(* the wrap-around is reachable.                                           *)
(***************************************************************************)
EXTENDS Integers, Sequences, FiniteSets, TLC

\* ---------------------------------------------------------------- bounds
\* modulus of the sequence id (stands for 2^32)
SeqMod == 4
\* number of data frames fed to the decoder
MaxFrames == 3
\* number of get_next_data calls of the legacy client
MaxPolls == 3
\* largest timestamp of a block received by the legacy client
MaxTs == 2
\* number of clients that may connect to the emulator
NClients == 2
\* number of control frames a client sends on one connection
MaxCmds == 2
\* number of blocks the sampler publishes
MaxBlocks == 1
\* number of streamer threads alive at the same time
MaxStreamers == 2
\* datagrams waiting in the emulator's data socket
MaxDgram == 1
\* rows in the collector's buffer beyond which the device is not polled
MaxRows == 3
\* window_len of the live view (300 by default)
WindowLen == 2
\* calls of connect(), disconnect() and send() in one run
MaxCalls == 3
\* size of the command matrices and of the control payloads
MaxMatrixRows == 2
MaxMatrixCols == 3
MaxPayloadLen == 2

\* ------------------------------------------------------ program constants
control_magic_code == 49374
data_magic_code == 55930
control_version == 1
data_version == 1
\* Data.columns_count: channels of a sampler block (besides the time column)
columns_count == 42
\* len(self._time_vector_template): rows of every block of the sampler
time_vector_template_len == 10
\* number of members of UdpConfigurationProtocol.Channels
ChannelsEnumCount == 45
OP_SET_CONFIG == 1
OP_START == 2
OP_STOP == 3
OP_GET_STATUS == 4
OP_PING == 5
OP_ACK == 6
OP_ERR == 7

VARIABLES
  \* --- decoder (caller of UdpResponseProtocol.deserialize)
  dec_prev,        \* previous_sequence_id held by the caller, -2 for None
  dec_fed,         \* the datagrams fed so far
  dec_out,         \* what deserialize returned for each of them
  \* --- emulator fields (UdpPedalDeviceMocker)
  is_server_running,
  are_sockets_initialized,
  control_socket,      \* "None" | "open" | "closed"
  control_connection,  \* 0 for None, else the client of the accepted socket
  control_addr,        \* 0 for None, else the client's address
  data_socket,         \* "None" | "open" | "closed"
  data_addr,           \* 0 for None, else the sender of the first datagram
  stop_event,          \* "None" | "set" | "clear"
  stream_thread,       \* 0 for None, else the newest streamer thread
  frequency,
  sample_per_block,
  channels_to_serve,
  sequence_id,
  data_simulator_current_data,  \* last timestamp of the sampler's block, 0 when empty
  data_simulator_stop_event,    \* "set" | "clear"
  data_simulator_thread,        \* "alive" | "done"
  \* --- threads
  pc,              \* position of the dispatcher (run / _handle_control_connection)
  threads,         \* streamer threads (_stream_data_loop)
  \* --- network and clients
  open_conns,      \* accepted control sockets the emulator has not closed
  backlog,         \* clients connected to the listening socket, not accepted yet
  dgram_in,        \* senders of the datagrams waiting in the data socket
  ctrl_in,         \* control frame on the stream of the accepted connection
  client,          \* state of each client
  \* --- what the current session has seen on the wire
  nreq,            \* control frames read by the dispatcher
  nresp,           \* response frames written on the control stream
  last_req,        \* the last control frame read
  last_resp,       \* the last response frame written
  frames_sent,     \* data frames sent since construction (mod SeqMod)
  session_first_seq,  \* sequence id of the first data frame of the session, -1 if none
  config_accepted,  \* a SET_CONFIG has been answered ACK in the session
  last_error,      \* the exception last logged by the loop's except branch
  \* --- legacy client (TcpPedalDevice)
  tcp_socket,      \* "None" | "open"
  previous_last_timestamp,  \* -1 for None
  tcp_polls,       \* what each get_next_data call received and returned
  tcp_reads,       \* the bytes each get_next_data call took from the stream
  \* --- connection management of the clients
  dev_socket,      \* TcpDevice._socket: "None" | "open"
  udp_socket,      \* UdpPedalDevice._socket: "unset" while the attribute does not exist
  udp_sent,        \* opcodes of the control frames UdpPedalDevice wrote
  client_calls,    \* the connect()/disconnect()/send() calls made and what they returned
  \* --- wire formats
  codec_call,      \* the last value encoded, its bytes, and what the reader decoded
  \* --- collector (Data, DataCollector)
  col_data,        \* DataCollector._data._data: width and rows of the buffer
  col_is_running,  \* DataCollector._is_running
  col_thread,      \* the worker thread (run): position and locals
  col_main,        \* the thread that calls start(), stop() and the live view
  col_view,        \* the rows the last live-window read returned
  \* --- legacy emulator (TcpPedalDeviceMocker) and the client that polls it
  tcp_mocker       \* the session, the request on the stream, what was read and answered

decvars == <<dec_prev, dec_fed, dec_out>>
emuvars == <<is_server_running, are_sockets_initialized, control_socket,
             control_connection, control_addr, data_socket, data_addr,
             stop_event, stream_thread, frequency, sample_per_block,
             channels_to_serve, sequence_id, data_simulator_current_data>>
simvars == <<data_simulator_stop_event, data_simulator_thread>>
thrvars == <<pc, threads>>
netvars == <<open_conns, backlog, dgram_in, ctrl_in, client>>
obsvars == <<nreq, nresp, last_req, last_resp, frames_sent,
             session_first_seq, config_accepted, last_error>>
tcpvars == <<tcp_socket, previous_last_timestamp, tcp_polls, tcp_reads>>
clivars == <<dev_socket, udp_socket, udp_sent, client_calls>>
codvars == <<codec_call>>
colvars == <<col_data, col_is_running, col_thread, col_main, col_view>>
mockvars == <<tcp_mocker>>
libvars == <<clivars, codvars, colvars, mockvars>>
vars == <<decvars, emuvars, simvars, thrvars, netvars, obsvars, tcpvars, libvars>>

\* =====================================================================
\* UdpResponseProtocol.deserialize
\* =====================================================================
\* A datagram as the decoder sees it: whether it holds a whole header, the
\* header fields, and the number of payload bytes behind the header.
\* header values that are not the protocol's
OtherMagic == data_magic_code + 1
OtherVersion == data_version + 1
DataFrame(h, m, v, s, n) ==
  [hdr_ok |-> h, magic |-> m, ver |-> v, sequence_id |-> s,
   sample_count |-> 1, channel_count |-> 2, payload_len |-> n]
DataFrames ==
     {DataFrame(TRUE, m, v, s, 16) :
        m \in {data_magic_code, OtherMagic}, v \in {data_version, OtherVersion},
        s \in 0..(SeqMod - 1)}
  \cup {DataFrame(TRUE, data_magic_code, data_version, s, 8) : s \in 0..(SeqMod - 1)}
  \cup {DataFrame(FALSE, data_magic_code, data_version, 0, 0)}

WellFormed(f) ==
  /\ f.hdr_ok
  /\ f.magic = data_magic_code
  /\ f.ver = data_version
  /\ f.payload_len = f.sample_count * f.channel_count * 8

\* previous_sequence_id = None
NoneSeq == 0 - 2

\* variant: a frame rejected as out of order hands its own id back
deserialize_AdoptsRejectedId(data, previous_sequence_id) ==
  LET prev == IF previous_sequence_id = NoneSeq THEN -1 ELSE previous_sequence_id
  IN  IF ~data.hdr_ok THEN [data |-> FALSE, seq |-> prev]
      ELSE IF data.magic # data_magic_code /\ data.ver # data_version
        THEN [data |-> FALSE, seq |-> prev]
      ELSE IF data.payload_len < data.sample_count * data.channel_count * 8
        THEN [data |-> FALSE, seq |-> prev]
      ELSE IF prev > data.sequence_id
        THEN [data |-> FALSE, seq |-> data.sequence_id]
      ELSE [data |-> TRUE, seq |-> data.sequence_id]

\* returns [data |-> TRUE iff an array is returned, seq |-> the returned id]
deserialize(data, previous_sequence_id) ==
  LET prev == IF previous_sequence_id = NoneSeq THEN -1 ELSE previous_sequence_id
  IN  IF ~data.hdr_ok THEN [data |-> FALSE, seq |-> prev]
      ELSE IF data.magic # data_magic_code /\ data.ver # data_version
        THEN [data |-> FALSE, seq |-> prev]
      ELSE IF data.payload_len < data.sample_count * data.channel_count * 8
        THEN [data |-> FALSE, seq |-> prev]
      ELSE IF prev > data.sequence_id
        THEN [data |-> FALSE, seq |-> prev]
      ELSE [data |-> TRUE, seq |-> data.sequence_id]

\* ---------------------------------------------------------- decoder run
DecInit ==
  /\ dec_prev = NoneSeq
  /\ dec_fed = <<>>
  /\ dec_out = <<>>

\* the caller feeds one datagram and threads the returned id back
Feed(f) ==
  /\ Len(dec_fed) < MaxFrames
  /\ LET r == deserialize(f, dec_prev)
     IN  /\ dec_out' = Append(dec_out, r)
         /\ dec_prev' = r.seq
  /\ dec_fed' = Append(dec_fed, f)

\* the ids of the frames for which an array was returned, in order
AcceptedIds ==
  LET idx == {i \in 1..Len(dec_out) : dec_out[i].data}
      RECURSIVE Build(_)
      Build(n) == IF n = 0 THEN <<>>
                  ELSE IF n \in idx THEN Append(Build(n - 1), dec_out[n].seq)
                  ELSE Build(n - 1)
  IN  Build(Len(dec_out))

AllWellFormed == \A i \in 1..Len(dec_fed) : WellFormed(dec_fed[i])

\* =====================================================================
\* TcpPedalDevice
\* =====================================================================
\* self._previous_last_timestamp = None
NoTimestamp == 0 - 1
\* what the socket delivers to one call of get_next_data
Reply(kind, first, last) ==
  [kind |-> kind, first_timestamp |-> first, last_timestamp |-> last]
\* a decoded response: the timestamps output[0, 0] and output[-1, 0] of its
\* first and last sample
Block(first, last) == Reply("block", first, last)
Blocks == {Block(a, b) : a \in 0..MaxTs, b \in 0..MaxTs}
\* get_next_data returns None
NoBlock == Reply("None", NoTimestamp, NoTimestamp)
\* a socket error, an empty header, an empty body, or the bytes of a block
Replies ==
  {Reply(k, NoTimestamp, NoTimestamp) : k \in {"socket.error", "no header", "no data"}}
    \cup Blocks

TcpInit ==
  /\ tcp_socket = "None"
  /\ previous_last_timestamp = NoTimestamp
  /\ tcp_polls = <<>>
  /\ tcp_reads = <<>>

\* connect() of TcpPedalDevice and of TcpDevice: True with the socket held
\* when there is one; otherwise a socket is opened, and a failed connect
\* leaves None and returns False
connect(sock, ok) ==
  IF sock # "None" THEN [socket |-> sock, result |-> "True"]
  ELSE IF ok THEN [socket |-> "open", result |-> "True"]
  ELSE [socket |-> "None", result |-> "False"]
\* disconnect() of the three clients: the socket is closed and dropped, and
\* `self._socket is None` is returned.  Reading self._socket raises
\* AttributeError while the attribute has never been assigned.
disconnect(sock) ==
  IF sock = "unset" THEN [socket |-> sock, result |-> "AttributeError"]
  ELSE [socket |-> "None", result |-> "True"]
\* send(): False without a socket and when sendall raises socket.error
send(sock, ok) ==
  IF sock = "unset" THEN [socket |-> sock, result |-> "AttributeError"]
  ELSE IF sock = "None" THEN [socket |-> sock, result |-> "False"]
  ELSE [socket |-> sock, result |-> IF ok THEN "True" ELSE "False"]

TcpConnect(ok) ==
  /\ tcp_socket' = connect(tcp_socket, ok).socket
  /\ tcp_socket' # tcp_socket
  /\ UNCHANGED <<previous_last_timestamp, tcp_polls, tcp_reads>>

\* variant: disconnect() also forgets the recorded last timestamp
TcpDisconnect_ForgetsRecord ==
  /\ tcp_socket # "None"
  /\ tcp_socket' = disconnect(tcp_socket).socket
  /\ previous_last_timestamp' = NoTimestamp
  /\ UNCHANGED <<tcp_polls, tcp_reads>>

TcpDisconnect ==
  /\ tcp_socket # "None"
  /\ tcp_socket' = disconnect(tcp_socket).socket
  /\ UNCHANGED <<previous_last_timestamp, tcp_polls, tcp_reads>>

\* variant: the last timestamp is recorded before the block is compared
get_next_data_RecordsFirst(reply, sent) ==
  /\ Len(tcp_polls) < MaxPolls
  /\ LET dropped == previous_last_timestamp # NoTimestamp
                       /\ reply.first_timestamp < previous_last_timestamp
         output == IF tcp_socket = "None" \/ reply \notin Blocks \/ dropped
                     THEN NoBlock ELSE reply
     IN  /\ previous_last_timestamp' =
               IF tcp_socket = "None" \/ reply \notin Blocks
                 THEN previous_last_timestamp ELSE reply.last_timestamp
         /\ tcp_polls' = Append(tcp_polls,
               [connected |-> tcp_socket # "None", reply |-> reply, output |-> output,
                previous_last_timestamp |-> previous_last_timestamp',
                sent |-> tcp_socket # "None" /\ sent, socket |-> tcp_socket])
  /\ UNCHANGED <<tcp_socket, tcp_reads>>

\* the guard of get_next_data: a record is held and the block starts before it
Dropped(previous, reply) ==
  previous # NoTimestamp /\ reply.first_timestamp < previous
\* what get_next_data returns: None without a socket, on a socket error and
\* on an empty read; otherwise the decoded block unless the guard drops it
Returned(sock, previous, reply) ==
  IF sock = "None" \/ reply \notin Blocks \/ Dropped(previous, reply)
    THEN NoBlock ELSE reply
\* self._previous_last_timestamp after the call
Recorded(sock, previous, reply) ==
  IF Returned(sock, previous, reply) = NoBlock THEN previous
  ELSE reply.last_timestamp

\* get_next_data: one poll of the device.  send() catches a failure of sendall
\* and returns False, which line 83 does not look at: whether the request was
\* sent (sent) does not change what the call does with the reply.
get_next_data(reply, sent) ==
  /\ Len(tcp_polls) < MaxPolls
  /\ LET output == Returned(tcp_socket, previous_last_timestamp, reply)
     IN  /\ previous_last_timestamp' =
               Recorded(tcp_socket, previous_last_timestamp, reply)
         /\ tcp_polls' = Append(tcp_polls,
               [connected |-> tcp_socket # "None", reply |-> reply, output |-> output,
                previous_last_timestamp |-> previous_last_timestamp',
                sent |-> tcp_socket # "None" /\ sent, socket |-> tcp_socket])
  /\ UNCHANGED <<tcp_socket, tcp_reads>>

\* ------------------------------------------- the bytes of the responses
\* TcpResponseProtocol.header_length
header_length == 4
\* the doubles of one response: one row of TcpResponseProtocol.data_shape
DoubleCount == 10
\* get_data_length_from_header: each double is 8 bytes
data_length == DoubleCount * 8
FrameLength == header_length + data_length
\* what one socket.recv(n) returns of the bytes of a response: at least one
\* byte and at most n
HeaderChunks == 1..header_length
\* 0: the peer closed its end and recv returns b""
BodyChunks == {0, 1, data_length - 8, data_length}

\* the bytes taken from the stream so far; the device writes one response
\* after the other, so a multiple of FrameLength is a frame boundary
StreamPosition ==
  IF tcp_reads = <<>> THEN 0 ELSE tcp_reads[Len(tcp_reads)].position

\* lines 88-97 of get_next_data on the bytes of the stream: one recv for the
\* header and one recv for the body.  A header of fewer than 4 bytes raises
\* in get_data_length_from_header, and a body that is not a whole number of
\* rows raises in deserialize (neither is a socket.error); an empty body
\* returns None.
ReadResponse(header, data) ==
  /\ tcp_socket # "None"
  /\ Len(tcp_reads) < MaxPolls
  /\ LET start == StreamPosition
         body == IF header < header_length THEN 0 ELSE data
         output == IF header < header_length THEN "ValueError"
                   ELSE IF data = 0 THEN "None"
                   ELSE IF data < data_length THEN "ValueError"
                   ELSE "block"
     IN  tcp_reads' = Append(tcp_reads,
           [start |-> start, header |-> header, data |-> body, output |-> output,
            position |-> start + header + body])
  /\ UNCHANGED <<tcp_socket, previous_last_timestamp, tcp_polls>>

\* =====================================================================
\* connection management of the clients
\* =====================================================================
ClientKinds == {"TcpPedalDevice", "TcpDevice", "UdpPedalDevice"}

\* UdpPedalDevice.__init__ assigns no _socket (the assignment is commented out)
CliInit ==
  /\ dev_socket = "None"
  /\ udp_socket = "unset"
  /\ udp_sent = <<>>
  /\ client_calls = <<>>

\* UdpPedalDevice.connect: line 130 reads self._socket; with a socket held it
\* returns True; otherwise line 134 assigns a new socket and line 136 reads
\* self._host, which no line assigns.  No control frame is written on any path.
UdpPedalDevice_connect(sock, ok) ==
  IF sock = "unset" THEN [socket |-> sock, result |-> "AttributeError"]
  ELSE IF sock # "None" THEN [socket |-> sock, result |-> "True"]
  ELSE [socket |-> "open", result |-> "AttributeError"]

SocketOf(c) ==
  IF c = "TcpPedalDevice" THEN tcp_socket
  ELSE IF c = "TcpDevice" THEN dev_socket ELSE udp_socket

\* one call of a client's method: its effect on the client's socket, and the
\* record of the call
Called(c, op, after, wrote) ==
  /\ Len(client_calls) < MaxCalls
  /\ tcp_socket' = IF c = "TcpPedalDevice" THEN after.socket ELSE tcp_socket
  /\ dev_socket' = IF c = "TcpDevice" THEN after.socket ELSE dev_socket
  /\ udp_socket' = IF c = "UdpPedalDevice" THEN after.socket ELSE udp_socket
  /\ udp_sent' = IF c = "UdpPedalDevice" THEN udp_sent \o wrote ELSE udp_sent
  /\ client_calls' = Append(client_calls,
        [client |-> c, op |-> op, before |-> SocketOf(c), socket |-> after.socket,
         result |-> after.result, wrote |-> wrote])
  /\ UNCHANGED <<previous_last_timestamp, tcp_polls, tcp_reads>>

CallConnect(c, ok) ==
  Called(c, "connect",
         IF c = "UdpPedalDevice" THEN UdpPedalDevice_connect(SocketOf(c), ok)
         ELSE connect(SocketOf(c), ok),
         <<>>)

CallDisconnect(c) == Called(c, "disconnect", disconnect(SocketOf(c)), <<>>)

CallSend(c, ok) == Called(c, "send", send(SocketOf(c), ok), <<>>)

\* =====================================================================
\* wire formats
\* =====================================================================
\* byte values an entry of a command matrix and a byte of a payload are
\* drawn from: both ends of the range and both sides of the sign bit
ByteSamples == {0, 127, 128, 255}
\* non-empty rectangular lists of rows
Matrices ==
  UNION {[1..r -> [1..c -> ByteSamples]] : r \in 1..MaxMatrixRows, c \in 1..MaxMatrixCols}
PayloadBytes == UNION {[1..n -> {0, 255}] : n \in 0..MaxPayloadLen}

\* struct.pack("!H", n) and struct.pack("!i", n), struct.pack("!I", n) of a
\* number that is not negative: big-endian bytes
Pack16(n) == <<(n \div 256) % 256, n % 256>>
Pack32(n) == <<(n \div 16777216) % 256, (n \div 65536) % 256, (n \div 256) % 256, n % 256>>
Unpack16(b) == b[1] * 256 + b[2]
\* struct.unpack("!I", b), for the lengths below 2^31 that the frames of the
\* model have
Unpack32(b) == b[1] * 16777216 + b[2] * 65536 + b[3] * 256 + b[4]
\* struct.unpack("!i", b): two's complement
Unpack32Signed(b) ==
  (IF b[1] >= 128 THEN b[1] - 256 ELSE b[1]) * 16777216
    + b[2] * 65536 + b[3] * 256 + b[4]
\* struct.unpack("!b", b): two's complement
Unpack8Signed(b) == IF b >= 128 THEN b - 256 ELSE b

\* ------------------------------------------------------ legacy request
\* TcpRequestProtocol._command_to_bytes: one "!B" byte per entry, row by row
command_to_bytes(commands) ==
  LET cols == Len(commands[1])
  IN  [k \in 1..(Len(commands) * cols) |->
         commands[((k - 1) \div cols) + 1][((k - 1) % cols) + 1]]
\* TcpRequestProtocol.serialized: the "!i" count of entries, then the entries
TcpRequestProtocol_serialized(commands) ==
  Pack32(Len(commands) * Len(commands[1])) \o command_to_bytes(commands)
\* TcpPedalDeviceMocker._listen_command: the count, that many bytes unpacked
\* as "!b", regrouped two by two
listen_command(wire) ==
  LET commands_length == Unpack32Signed(SubSeq(wire, 1, 4))
      commands_data == SubSeq(wire, 5, 4 + commands_length)
      commands == [k \in 1..Len(commands_data) |-> Unpack8Signed(commands_data[k])]
  IN  [i \in 1..((Len(commands) + 1) \div 2) |->
         SubSeq(commands, 2 * i - 1,
                IF 2 * i > Len(commands) THEN Len(commands) ELSE 2 * i)]

\* ------------------------------------------------------- control frames
\* what a reader of a control frame gets; raised when no frame was produced
Decoded(raised, op, payload) ==
  [raised |-> raised, operational_code |-> op, payload |-> payload]
\* struct.pack("!H H H I", magic, version, operational_code, len(payload))
control_header(op, payload) ==
  Pack16(control_magic_code) \o Pack16(control_version) \o Pack16(op)
    \o Pack32(Len(payload))
\* _send_control_response: header + payload
send_control_response(op, payload) == control_header(op, payload) \o payload
\* _handle_control_connection, lines 150-162: the header is unpacked and
\* tested, then payload_len bytes are read
read_control_frame(wire) ==
  LET magic == Unpack16(SubSeq(wire, 1, 2))
      version == Unpack16(SubSeq(wire, 3, 4))
      operational_code == Unpack16(SubSeq(wire, 5, 6))
      payload_len == Unpack32(SubSeq(wire, 7, 10))
  IN  IF Len(wire) < 10 \/ magic # control_magic_code \/ version # control_version
        THEN Decoded(TRUE, 0, <<>>)
        ELSE Decoded(FALSE, operational_code, SubSeq(wire, 11, 10 + payload_len))
\* UdpCommandProtocol(operational_code): __init__ keeps the opcode and assigns
\* no _udp_port
UdpCommandProtocol(op) == [operational_code |-> op, has_udp_port |-> FALSE]
\* the bytes of json.dumps({"udp_port": ...}), as one opaque byte
UdpPortJson == <<123>>
\* UdpCommandProtocol.serialized: reads self._udp_port (AttributeError while it
\* is not assigned) and packs the opcode SET_CONFIG whatever the command's
\* opcode is; <<>> stands for no frame
UdpCommandProtocol_serialized(command) ==
  IF ~command.has_udp_port THEN <<>>
  ELSE send_control_response(OP_SET_CONFIG, UdpPortJson)

NoCall == [fn |-> "none", input |-> <<>>, wire |-> <<>>, output |-> <<>>]
CodecInit == codec_call = NoCall

\* a request is serialized by the client and read by the legacy emulator
RequestRoundTrip(commands) ==
  LET wire == TcpRequestProtocol_serialized(commands)
  IN  codec_call' = [fn |-> "TcpRequestProtocol", input |-> commands,
                     wire |-> wire, output |-> listen_command(wire)]

\* a control frame is written and read
ControlRoundTrip(op, payload) ==
  LET wire == send_control_response(op, payload)
  IN  codec_call' = [fn |-> "control frame", input |-> Decoded(FALSE, op, payload),
                     wire |-> wire, output |-> read_control_frame(wire)]

\* a command object is serialized and read
CommandRoundTrip(op) ==
  LET wire == UdpCommandProtocol_serialized(UdpCommandProtocol(op))
  IN  codec_call' = [fn |-> "UdpCommandProtocol", input |-> Decoded(FALSE, op, <<>>),
                     wire |-> wire, output |-> read_control_frame(wire)]

\* =====================================================================
\* TcpPedalDeviceMocker
\* =====================================================================
\* self._request_protocol_cache._commands: the command list of the NORMAL
\* request, here with two commands
NormalCommands == <<<<0, 0>>, <<0, 127>>>>
\* the command lists a client sends
RequestCommands ==
  {m \in Matrices : \A i \in 1..Len(m) : \A j \in 1..Len(m[i]) : m[i][j] \in {0, 127}}
\* no request frame on the stream
NoRequest == <<>>

\* connection: is_connected; stream: the request frame the client has written
\* and the emulator has not read; polling: the client is in get_next_data,
\* in recv for the response; polls, requests_read, responses: counts
MockerInit ==
  tcp_mocker = [connection |-> FALSE, stream |-> NoRequest, polling |-> FALSE,
                polls |-> 0, requests_read |-> 0, responses |-> 0]

\* _start_listening: a client is accepted
MockerAccept ==
  /\ ~tcp_mocker.connection
  /\ tcp_mocker.polls < MaxPolls
  /\ tcp_mocker' = [tcp_mocker EXCEPT !.connection = TRUE, !.stream = NoRequest]

\* get_next_data of the connected client: the request is written, then the
\* client waits in recv for the response
ClientRequest(commands) ==
  /\ tcp_mocker.connection
  /\ ~tcp_mocker.polling
  /\ tcp_mocker.polls < MaxPolls
  /\ tcp_mocker' = [tcp_mocker EXCEPT !.stream = TcpRequestProtocol_serialized(commands),
                                      !.polling = TRUE, !.polls = @ + 1]

\* the client closes its socket between two polls: recv_exact raises in
\* _listen_command and the emulator closes the session
ClientCloses ==
  /\ tcp_mocker.connection
  /\ ~tcp_mocker.polling
  /\ tcp_mocker.stream = NoRequest
  /\ tcp_mocker' = [tcp_mocker EXCEPT !.connection = FALSE]

\* one turn of the loop of _start_listening on a complete request frame:
\* _listen_command reads it, and _serve_data writes one response when the
\* commands are the ones of the cache
ListenAndServe ==
  /\ tcp_mocker.connection
  /\ tcp_mocker.stream # NoRequest
  /\ LET has_command == listen_command(tcp_mocker.stream) = NormalCommands
     IN  tcp_mocker' =
           [tcp_mocker EXCEPT !.stream = NoRequest, !.requests_read = @ + 1,
              !.responses = IF has_command THEN @ + 1 ELSE @,
              !.polling = IF has_command THEN FALSE ELSE @]

\* =====================================================================
\* Data and DataCollector
\* =====================================================================
\* one row of the buffer: its timestamp (column 0).  before_start marks the
\* rows that were in the buffer when the latest start() was called.
Row(t) == [timestamp |-> t, before_start |-> FALSE]
\* np.empty((0, columns_count + 1)): Data() and Data.clear()
EmptyData == [width |-> columns_count + 1, rows |-> <<>>]
\* a width a device block can have other than the buffer's
OtherWidth == columns_count
BlockWidths == {columns_count + 1, OtherWidth}
\* the blocks a device produces: consecutive timestamps first..last
IncreasingBlocks == {b \in Blocks : b.first_timestamp <= b.last_timestamp}
\* the array of a block: one row per timestamp
ArrayOf(block, width) ==
  [width |-> width,
   rows |-> [i \in 1..(block.last_timestamp - block.first_timestamp + 1) |->
                Row(block.first_timestamp + i - 1)]]
\* data is None
NoArray == [width |-> 0, rows |-> <<>>]
\* what the device hands to the worker in one iteration
DeviceReplies == {Reply("socket.error", NoTimestamp, NoTimestamp)} \cup IncreasingBlocks

\* variant: np.concatenate takes a block of any width
Concatenates_AnyWidth(old, new_data) == TRUE
\* np.concatenate((old, new_data), axis=0) raises when the widths differ
Concatenates(old, new_data) == old.width = new_data.width
\* variant: the rows of the block are added one assignment at a time, and a
\* reader sees the buffer before the last one
add_data_WithoutLastRow(old, new_data) ==
  [width |-> old.width,
   rows |-> old.rows \o SubSeq(new_data.rows, 1, Len(new_data.rows) - 1)]
\* Data.add_data: the value assigned to self._data
add_data(old, new_data) ==
  [width |-> old.width, rows |-> old.rows \o new_data.rows]

\* the rows of data[starting_index:], with Python's meaning of a negative index
Slice(rows, starting_index) ==
  LET n == Len(rows)
      from == IF starting_index < 0
                THEN (IF n + starting_index < 0 THEN 0 ELSE n + starting_index)
                ELSE (IF starting_index > n THEN n ELSE starting_index)
  IN  SubSeq(rows, from + 1, n)

MarkBefore(rows) == [i \in 1..Len(rows) |-> [rows[i] EXCEPT !.before_start = TRUE]]

WorkerAt(p, data, old) == [pc |-> p, data |-> data, old |-> old]
MainAt(p, cond, index, started) ==
  [pc |-> p, cond |-> cond, starting_index |-> index, started |-> started]

ColInit ==
  /\ col_data = EmptyData
  /\ col_is_running = FALSE
  /\ col_thread = WorkerAt("unstarted", NoArray, EmptyData)
  /\ col_main = MainAt("idle", FALSE, 0, "never")
  /\ col_view = <<>>

\* ----------------------------------------------------------- start, stop
\* start(), line 130: self._is_running = True
StartSetsRunning ==
  /\ col_main.pc = "idle"
  /\ col_is_running' = TRUE
  /\ col_main' = [col_main EXCEPT !.pc = "start:131", !.started = "called"]
  /\ col_data' = [col_data EXCEPT !.rows = MarkBefore(@)]
  /\ col_thread' = [col_thread EXCEPT !.old.rows = MarkBefore(@)]
  /\ UNCHANGED col_view

\* start(), lines 131-132: the thread is started unless it is alive; a thread
\* that has ended cannot be started again (RuntimeError)
StartStartsThread ==
  /\ col_main.pc = "start:131"
  /\ IF col_thread.pc = "unstarted"
       THEN /\ col_thread' = [col_thread EXCEPT !.pc = "loop"]
            /\ col_main' = [col_main EXCEPT !.pc = "start:133"]
       ELSE IF col_thread.pc = "dead"
         THEN /\ col_main' = [col_main EXCEPT !.pc = "idle", !.started = "raised"]
              /\ UNCHANGED col_thread
         ELSE /\ col_main' = [col_main EXCEPT !.pc = "start:133"]
              /\ UNCHANGED col_thread
  /\ UNCHANGED <<col_data, col_is_running, col_view>>

\* start(), line 133: self._data.clear()
StartClears ==
  /\ col_main.pc = "start:133"
  /\ col_data' = EmptyData
  /\ col_main' = [col_main EXCEPT !.pc = "idle", !.started = "returned"]
  /\ UNCHANGED <<col_is_running, col_thread, col_view>>

\* stop(): self._is_running = False
Stop ==
  /\ col_main.pc = "idle"
  /\ col_is_running
  /\ col_is_running' = FALSE
  /\ UNCHANGED <<col_data, col_thread, col_main, col_view>>

\* ------------------------------------------------------------- live view
\* update(), line 170: the test len(self._data.timestamp) > window_len
UpdateTestsLength ==
  /\ col_main.pc = "idle"
  /\ col_main' = [col_main EXCEPT !.pc = "update:index",
                                  !.cond = Len(col_data.rows) > WindowLen]
  /\ UNCHANGED <<col_data, col_is_running, col_thread, col_view>>

\* update(), line 170: starting_index, the length being read again
UpdateComputesIndex ==
  /\ col_main.pc = "update:index"
  /\ col_main' = [col_main EXCEPT
        !.pc = "update:slice",
        !.starting_index = IF col_main.cond THEN Len(col_data.rows) - WindowLen ELSE 0]
  /\ UNCHANGED <<col_data, col_is_running, col_thread, col_view>>

\* update(), line 171: data = self._data[starting_index:]
UpdateSlices ==
  /\ col_main.pc = "update:slice"
  /\ col_view' = Slice(col_data.rows, col_main.starting_index)
  /\ col_main' = [col_main EXCEPT !.pc = "idle", !.cond = FALSE, !.starting_index = 0]
  /\ UNCHANGED <<col_data, col_is_running, col_thread>>

\* ---------------------------------------------------------------- worker
\* run(), lines 140-143: the loop goes on while _is_running; otherwise the
\* thread waits on a condition that nothing notifies
RunTestsRunning ==
  /\ col_thread.pc = "loop"
  /\ col_thread' = [col_thread EXCEPT !.pc = IF col_is_running THEN "get" ELSE "waiting"]
  /\ UNCHANGED <<col_data, col_is_running, col_main, col_view>>

\* get_last_data of the device: the poll of the legacy client
get_last_data(reply) ==
  /\ previous_last_timestamp' = Recorded(tcp_socket, previous_last_timestamp, reply)
  /\ UNCHANGED <<tcp_socket, tcp_polls, tcp_reads>>

\* run(), lines 145-146 and 150: data = self._device.get_last_data(); the
\* iteration ends there when data is None
RunGetsData(reply, width) ==
  /\ col_thread.pc = "get"
  /\ Len(col_data.rows) < MaxRows
  /\ get_last_data(reply)
  /\ LET output == Returned(tcp_socket, previous_last_timestamp, reply)
     IN  col_thread' =
           IF output = NoBlock THEN [col_thread EXCEPT !.pc = "loop"]
           ELSE [col_thread EXCEPT !.pc = "add:read", !.data = ArrayOf(output, width)]
  /\ UNCHANGED <<col_data, col_is_running, col_main, col_view>>

\* add_data, line 89: self._data is read and concatenated; a block of another
\* width raises and ends the thread
RunAddReads ==
  /\ col_thread.pc = "add:read"
  /\ col_thread' =
       IF Concatenates(col_data, col_thread.data)
         THEN [col_thread EXCEPT !.pc = "add:write", !.old = col_data]
         ELSE WorkerAt("dead", NoArray, EmptyData)
  /\ UNCHANGED <<col_data, col_is_running, col_main, col_view>>

\* add_data, line 89: the result is assigned to self._data; then line 148
\* and the sleep
RunAddWrites ==
  /\ col_thread.pc = "add:write"
  /\ col_data' = add_data(col_thread.old, col_thread.data)
  /\ col_thread' = WorkerAt("loop", NoArray, EmptyData)
  /\ UNCHANGED <<col_is_running, col_main, col_view>>

\* =====================================================================
\* UdpPedalDeviceMocker
\* =====================================================================
Clients == 1..NClients
Threads == 1..MaxStreamers

\* ------------------------------------------------------- control frames
\* JSON payload of SET_CONFIG: json_ok is FALSE when the bytes are not JSON;
\* a key that is missing or null has has_* = FALSE.  The keys are the ones a
\* client may send: "frequency", "sample_per_block", "channels" (read by the
\* handler), "samples_per_block", "udp_port" and "sample_window" (not read
\* by the handler).
Payload(j, hf, f, hs, n, hc, c) ==
  [json_ok |-> j, has_frequency |-> hf, frequency |-> f,
   has_sample_per_block |-> hs, sample_per_block |-> n,
   has_channels |-> hc, channels |-> c,
   has_samples_per_block |-> FALSE, samples_per_block |-> 0,
   has_udp_port |-> FALSE, has_sample_window |-> FALSE]
NoJson == Payload(FALSE, FALSE, 0, FALSE, 0, FALSE, <<>>)
CfgNone == Payload(TRUE, FALSE, 0, FALSE, 0, FALSE, <<>>)
CfgCh0 == Payload(TRUE, FALSE, 0, FALSE, 0, TRUE, <<0>>)
CfgCh44 == Payload(TRUE, FALSE, 0, FALSE, 0, TRUE, <<44>>)
\* {"frequency": 100, "sample_per_block": 5}
CfgFreqSpb == Payload(TRUE, TRUE, 100, TRUE, 5, FALSE, <<>>)
\* {"samples_per_block": 7, "udp_port": <the client's data port>}
CfgOtherKeys ==
  [CfgNone EXCEPT !.has_samples_per_block = TRUE, !.samples_per_block = 7,
                  !.has_udp_port = TRUE]
\* {"sample_window": 0.2}
CfgUnknownKey == [CfgNone EXCEPT !.has_sample_window = TRUE]
\* a JSON value on which int() raises, such as "five"
NotAnInt == 0 - 1
\* {"frequency": 200, "sample_per_block": "five"}
CfgFreqBadSpb == Payload(TRUE, TRUE, 200, TRUE, NotAnInt, FALSE, <<>>)
Payloads ==
  {NoJson, CfgUnknownKey, CfgCh0, CfgCh44, CfgFreqSpb, CfgOtherKeys, CfgFreqBadSpb}

\* hdr: the whole header arrives before end-of-stream;
\* complete: the payload_len announced bytes arrive before end-of-stream
ControlFrame(h, m, v, op, p, c) ==
  [hdr |-> h, magic |-> m, version |-> v, operational_code |-> op,
   payload |-> p, complete |-> c]
OtherControlMagic == control_magic_code + 1
OtherControlVersion == control_version + 1
UnknownOpcode == OP_ERR + 2
NoFrame == ControlFrame(FALSE, 0, 0, 0, NoJson, FALSE)
EofInHeader == ControlFrame(FALSE, control_magic_code, control_version, 0, NoJson, FALSE)
EofInPayload ==
  ControlFrame(TRUE, control_magic_code, control_version, OP_SET_CONFIG, CfgCh0, FALSE)
BadMagic ==
  ControlFrame(TRUE, OtherControlMagic, control_version, OP_PING, NoJson, TRUE)
BadVersion ==
  ControlFrame(TRUE, control_magic_code, OtherControlVersion, OP_PING, NoJson, TRUE)
Command(op, p) == ControlFrame(TRUE, control_magic_code, control_version, op, p, TRUE)
GoodFrames ==
     {Command(OP_SET_CONFIG, p) : p \in Payloads}
  \cup {Command(op, NoJson) :
          op \in {OP_START, OP_STOP, OP_GET_STATUS, OP_PING, UnknownOpcode}}
ViolationFrames == {EofInHeader, EofInPayload, BadMagic, BadVersion}
ClientFrames == GoodFrames \cup ViolationFrames
\* the frames of the runs checked under fairness: the commands that change
\* what the dispatcher and the streamers do next (the SET_CONFIG with
\* udp_port, the SET_CONFIG that selects a channel the streamer can serve,
\* START, STOP) and every protocol violation
LiveFrames ==
  {Command(OP_SET_CONFIG, CfgOtherKeys), Command(OP_SET_CONFIG, CfgCh0),
   Command(OP_START, NoJson), Command(OP_STOP, NoJson)} \cup ViolationFrames

\* a frame after which the client's side of the stream is closed
ClosesStream(f) == ~f.hdr \/ ~f.complete

\* ------------------------------------------------------ response frames
NoStatus ==
  [is_streaming |-> FALSE, frequency |-> 0, sample_per_block |-> 0,
   channels |-> <<>>, sequence_id |-> 0]
Response(op, text, status) ==
  [operational_code |-> op, payload |-> text, status |-> status]
NoResponse == Response(0, "", NoStatus)

\* ------------------------------------------------------- streamer thread
\* header fields of a data frame, and the array that was flattened behind
\* the header: its number of rows and, for each of its columns, the column
\* of the sampler's block it was taken from
NoPacket == [sequence_id |-> 0, sample_count |-> 0, channel_count |-> 0,
             rows |-> 0, columns |-> <<>>]
NoThread == [pc |-> "none", last_frame_timestamp |-> -1, data |-> 0,
             columns |-> <<>>, packet |-> NoPacket]

\* ----------------------------------------------------------- properties
is_connected ==
  is_server_running /\ control_connection # 0 /\ data_addr # 0

is_streaming == stop_event # "None" /\ stop_event # "set"

\* self._sequence_id = (self._sequence_id + 1) & 0xFFFFFFFF
SeqNext(s) == (s + 1) % SeqMod

\* [val.value + 1 for val in list(UdpConfigurationProtocol.Channels)]
DefaultChannels == [i \in 1..ChannelsEnumCount |-> i]

\* data[:, self._channels_to_serve] raises IndexError unless every index
\* addresses one of the 1 + _max_channel_count columns of the block
CanSlice(chs) == \A i \in 1..Len(chs) : chs[i] <= columns_count

\* a slot for a new streamer thread
\* the streamer threads that were started and have not returned
RunningStreamers == {t \in Threads : threads[t].pc \notin {"none", "done"}}
FreeThreads == {t \in Threads : threads[t].pc \in {"none", "done"}}

\* ----------------------------------------------------------------- Init
EmuInit ==
  /\ is_server_running = FALSE
  /\ are_sockets_initialized = FALSE
  /\ control_socket = "None"
  /\ control_connection = 0
  /\ control_addr = 0
  /\ data_socket = "None"
  /\ data_addr = 0
  /\ stop_event = "None"
  /\ stream_thread = 0
  /\ frequency = 50
  /\ sample_per_block = 10
  /\ channels_to_serve = DefaultChannels
  /\ sequence_id = 0
  /\ data_simulator_current_data = 0
  /\ data_simulator_stop_event = "clear"
  /\ data_simulator_thread = "alive"
  /\ pc = "init"
  /\ threads = [t \in Threads |-> NoThread]
  /\ open_conns = {}
  /\ backlog = <<>>
  /\ dgram_in = <<>>
  /\ ctrl_in = NoFrame
  /\ client = [c \in Clients |-> "idle"]
  /\ nreq = 0
  /\ nresp = 0
  /\ last_req = NoFrame
  /\ last_resp = NoResponse
  /\ frames_sent = 0
  /\ session_first_seq = -1
  /\ config_accepted = FALSE
  /\ last_error = "None"

Init == EmuInit /\ DecInit /\ TcpInit /\ CliInit /\ CodecInit /\ ColInit /\ MockerInit

\* ------------------------------------------------------------- clients
\* a client opens a control connection to the listening socket (the clients
\* are interchangeable: the idle client with the smallest number connects)
Connect(c) ==
  /\ client[c] = "idle"
  /\ \A d \in Clients : d < c => client[d] # "idle"
  /\ control_socket = "open"
  /\ backlog' = Append(backlog, c)
  /\ client' = [client EXCEPT ![c] = "pending"]
  /\ UNCHANGED <<decvars, tcpvars, libvars, simvars, emuvars, thrvars, open_conns, dgram_in, ctrl_in, obsvars>>

\* a client sends its initial (empty) datagram to the data port
SendDatagram(c) ==
  /\ client[c] \in {"pending", "accepted"}
  /\ data_socket = "open"
  /\ Len(dgram_in) < MaxDgram
  /\ dgram_in' = Append(dgram_in, c)
  /\ UNCHANGED <<decvars, tcpvars, libvars, simvars, emuvars, thrvars, open_conns, backlog, ctrl_in, client, obsvars>>

\* the client of the accepted connection writes a control frame, or closes
SendControl(c, f) ==
  /\ control_connection = c
  /\ client[c] = "accepted"
  /\ ctrl_in = NoFrame
  /\ nreq < MaxCmds \/ ClosesStream(f)
  /\ ctrl_in' = f
  /\ client' = [client EXCEPT ![c] = IF ClosesStream(f) THEN "closed" ELSE @]
  /\ UNCHANGED <<decvars, tcpvars, libvars, simvars, emuvars, thrvars, open_conns, backlog, dgram_in, obsvars>>

\* ------------------------------------------------------------- sampler
\* _simulate_data publishes the next block
Sample ==
  /\ data_simulator_thread = "alive"
  /\ data_simulator_current_data < MaxBlocks
  /\ data_simulator_current_data' = data_simulator_current_data + 1
  /\ UNCHANGED <<decvars, tcpvars, libvars, simvars, is_server_running, are_sockets_initialized, control_socket,
                 control_connection, control_addr, data_socket, data_addr,
                 stop_event, stream_thread, frequency, sample_per_block,
                 channels_to_serve, sequence_id, thrvars, netvars, obsvars>>

\* ---------------------------------------------------------- dispatcher
\* run(): the serving loop starts
Run ==
  /\ pc = "init"
  /\ is_server_running' = TRUE
  /\ pc' = "top"
  /\ UNCHANGED <<decvars, tcpvars, libvars, simvars, are_sockets_initialized, control_socket, control_connection,
                 control_addr, data_socket, data_addr, stop_event, stream_thread,
                 frequency, sample_per_block, channels_to_serve, sequence_id,
                 data_simulator_current_data, threads, netvars, obsvars>>

\* variant: accept() is called whether or not a connection is held
ShouldAccept_Always == TRUE

\* `if not self._control_connection:` guards accept()
ShouldAccept == control_connection = 0

\* _start_listening, called from the loop while not is_connected: creates and
\* binds the sockets if needed, accepts a waiting client if no connection is
\* held, then waits for a datagram to learn the data target.  accept() and
\* recvfrom() time out when nothing is waiting and the call returns False.
StartListening ==
  /\ pc = "top"
  /\ is_server_running
  /\ ~is_connected
  /\ LET fresh == ~are_sockets_initialized
         queue == IF fresh THEN <<>> ELSE backlog
         dgrams == IF fresh THEN <<>> ELSE dgram_in
         accepts == ShouldAccept /\ queue # <<>>
         conn == IF accepts THEN Head(queue) ELSE control_connection
         timeout == ShouldAccept /\ queue = <<>>
         learns == ~timeout /\ conn # 0 /\ dgrams # <<>>
     IN  /\ are_sockets_initialized' = TRUE
         /\ control_socket' = IF fresh THEN "open" ELSE control_socket
         /\ data_socket' = IF fresh THEN "open" ELSE data_socket
         /\ control_connection' = conn
         /\ control_addr' = IF accepts THEN conn ELSE control_addr
         /\ backlog' = IF accepts THEN Tail(queue) ELSE queue
         /\ open_conns' = IF accepts THEN open_conns \cup {conn} ELSE open_conns
         /\ client' = IF accepts THEN [client EXCEPT ![conn] = "accepted"] ELSE client
         /\ data_addr' = IF learns THEN Head(dgrams) ELSE data_addr
         /\ dgram_in' = IF learns THEN Tail(dgrams) ELSE dgrams
         /\ IF accepts
              THEN /\ nreq' = 0
                   /\ nresp' = 0
                   /\ last_req' = NoFrame
                   /\ last_resp' = NoResponse
                   /\ session_first_seq' = -1
                   /\ config_accepted' = FALSE
              ELSE UNCHANGED <<nreq, nresp, last_req, last_resp, session_first_seq,
                               config_accepted>>
  /\ UNCHANGED <<decvars, tcpvars, libvars, simvars, is_server_running, stop_event, stream_thread, frequency,
                 sample_per_block, channels_to_serve, sequence_id,
                 data_simulator_current_data, thrvars, ctrl_in, frames_sent, last_error>>

\* _stop_streaming up to the join: the event is set only while is_streaming
StopEventAfterStop == IF is_streaming THEN "set" ELSE stop_event

\* _stop_streaming joins the newest streamer thread (for at most 1 s)
MustJoin == is_streaming /\ stream_thread # 0

\* variant: the teardown forgets to reset _are_sockets_initialized, so the
\* closed sockets are never replaced
CloseSession_KeepsInitialized ==
  /\ open_conns' = open_conns \ {control_connection}
  /\ control_connection' = 0
  /\ control_addr' = 0
  /\ control_socket' = IF control_socket = "None" THEN "None" ELSE "closed"
  /\ data_socket' = IF data_socket = "None" THEN "None" ELSE "closed"
  /\ data_addr' = 0
  /\ are_sockets_initialized' = are_sockets_initialized
  /\ backlog' = <<>>
  /\ dgram_in' = <<>>
  /\ ctrl_in' = NoFrame
  /\ client' = [c \in Clients |->
                  IF c = control_connection THEN "closed"
                  ELSE IF client[c] = "pending" THEN "idle"
                  ELSE client[c]]

\* _stop_listening after _stop_streaming has returned: closes the connection
\* and both sockets and forgets the peer addresses
CloseSession ==
  /\ open_conns' = open_conns \ {control_connection}
  /\ control_connection' = 0
  /\ control_addr' = 0
  /\ control_socket' = IF control_socket = "None" THEN "None" ELSE "closed"
  /\ data_socket' = IF data_socket = "None" THEN "None" ELSE "closed"
  /\ data_addr' = 0
  /\ are_sockets_initialized' = FALSE
  /\ backlog' = <<>>
  /\ dgram_in' = <<>>
  /\ ctrl_in' = NoFrame
  /\ client' = [c \in Clients |->
                  IF c = control_connection THEN "closed"
                  ELSE IF client[c] = "pending" THEN "idle"
                  ELSE client[c]]

\* _send_control_response: one response frame written on the control stream
SendControlResponse(operational_code, payload, status) ==
  /\ nresp' = nresp + 1
  /\ last_resp' = Response(operational_code, payload, status)

\* the checks between reading the header and dispatching
ProtocolViolation(f) ==
  \/ ~f.hdr
  \/ f.magic # control_magic_code
  \/ f.version # control_version
  \/ ~f.complete

\* json.loads raises on the payload
PayloadRaises(f) ==
  f.operational_code = OP_SET_CONFIG /\ ~f.payload.json_ok

\* int(value) raises on a value of the JSON object
ConversionRaises(f) ==
  /\ f.operational_code = OP_SET_CONFIG
  /\ f.payload.json_ok
  /\ \/ f.payload.has_frequency /\ f.payload.frequency = NotAnInt
     \/ f.payload.has_sample_per_block /\ f.payload.sample_per_block = NotAnInt
     \/ /\ f.payload.has_channels
        /\ \E i \in 1..Len(f.payload.channels) : f.payload.channels[i] = NotAnInt

\* the except branch of the loop: the exception e is logged, _stop_listening()
ResetConnection(e) ==
  /\ last_error' = e
  /\ stop_event' = StopEventAfterStop
  /\ IF MustJoin
       THEN /\ pc' = "teardown_join"
            /\ ctrl_in' = NoFrame
            /\ UNCHANGED <<are_sockets_initialized, control_socket, control_connection,
                           control_addr, data_socket, data_addr, open_conns, backlog,
                           dgram_in, client>>
       ELSE /\ pc' = "top"
            /\ CloseSession
  /\ UNCHANGED <<stream_thread, threads, nresp, last_resp, config_accepted>>

\* an exception raised before the handler of an opcode has assigned anything
Raise(e) ==
  /\ ResetConnection(e)
  /\ UNCHANGED <<frequency, sample_per_block, channels_to_serve>>

\* SET_CONFIG on a payload with a value int() raises on: the fields before
\* that value are assigned, the list of channels is assigned only when
\* every entry converted
SetConfigRaises(f) ==
  LET config == f.payload
      frequency_raises == config.has_frequency /\ config.frequency = NotAnInt
      sample_per_block_raises ==
        config.has_sample_per_block /\ config.sample_per_block = NotAnInt
  IN  /\ frequency' =
           IF config.has_frequency /\ ~frequency_raises THEN config.frequency
           ELSE frequency
      /\ sample_per_block' =
           IF /\ ~frequency_raises
              /\ config.has_sample_per_block
              /\ ~sample_per_block_raises
             THEN config.sample_per_block
           ELSE sample_per_block
      /\ UNCHANGED channels_to_serve
      /\ ResetConnection("ValueError")

\* variant: samples per block is read from the key "samples_per_block"
HandleSetConfig_PluralKey(f) ==
  LET config == f.payload
  IN  /\ frequency' = IF config.has_frequency THEN config.frequency ELSE frequency
      /\ sample_per_block' =
           IF config.has_samples_per_block THEN config.samples_per_block
           ELSE sample_per_block
      /\ channels_to_serve' =
           IF config.has_channels
             THEN [i \in 1..Len(config.channels) |-> config.channels[i] + 1]
             ELSE channels_to_serve
      /\ SendControlResponse(OP_ACK, "OK", NoStatus)
      /\ config_accepted' = TRUE
      /\ pc' = "top"
      /\ UNCHANGED <<stop_event, stream_thread, threads>>

\* variant: a key that is absent resets its field to the constructor's value
HandleSetConfig_ResetsAbsent(f) ==
  LET config == f.payload
  IN  /\ frequency' = IF config.has_frequency THEN config.frequency ELSE 50
      /\ sample_per_block' =
           IF config.has_sample_per_block THEN config.sample_per_block ELSE 10
      /\ channels_to_serve' =
           IF config.has_channels
             THEN [i \in 1..Len(config.channels) |-> config.channels[i] + 1]
             ELSE DefaultChannels
      /\ SendControlResponse(OP_ACK, "OK", NoStatus)
      /\ config_accepted' = TRUE
      /\ pc' = "top"
      /\ UNCHANGED <<stop_event, stream_thread, threads>>

HandleSetConfig(f) ==
  LET config == f.payload
  IN  /\ frequency' = IF config.has_frequency THEN config.frequency ELSE frequency
      /\ sample_per_block' =
           IF config.has_sample_per_block THEN config.sample_per_block
           ELSE sample_per_block
      /\ channels_to_serve' =
           IF config.has_channels
             THEN [i \in 1..Len(config.channels) |-> config.channels[i] + 1]
             ELSE channels_to_serve
      /\ SendControlResponse(OP_ACK, "OK", NoStatus)
      /\ config_accepted' = TRUE
      /\ pc' = "top"
      /\ UNCHANGED <<stop_event, stream_thread, threads>>

\* _start_streaming, then the ACK
HandleStart ==
  /\ IF is_streaming
       THEN UNCHANGED <<stop_event, stream_thread, threads>>
       ELSE /\ FreeThreads # {}
            /\ LET t == CHOOSE x \in FreeThreads : \A y \in FreeThreads : x <= y
               IN  /\ stop_event' = "clear"
                   /\ stream_thread' = t
                   /\ threads' = [threads EXCEPT ![t] = [NoThread EXCEPT !.pc = "start"]]
  /\ SendControlResponse(OP_ACK, "STREAMING_STARTED", NoStatus)
  /\ pc' = "top"
  /\ UNCHANGED <<frequency, sample_per_block, channels_to_serve, config_accepted>>

\* _stop_streaming up to the join; the ACK follows when the join returns
HandleStop ==
  /\ stop_event' = StopEventAfterStop
  /\ IF MustJoin
       THEN /\ pc' = "stop_join"
            /\ UNCHANGED <<nresp, last_resp>>
       ELSE /\ pc' = "top"
            /\ SendControlResponse(OP_ACK, "STREAMING_STOPPED", NoStatus)
  /\ UNCHANGED <<stream_thread, threads, frequency, sample_per_block, channels_to_serve,
                 config_accepted>>

HandleGetStatus ==
  /\ SendControlResponse(OP_ACK, "STATUS",
       [is_streaming |-> is_streaming, frequency |-> frequency,
        sample_per_block |-> sample_per_block, channels |-> channels_to_serve,
        sequence_id |-> sequence_id])
  /\ pc' = "top"
  /\ UNCHANGED <<stop_event, stream_thread, threads, frequency, sample_per_block,
                 channels_to_serve, config_accepted>>

HandlePing ==
  /\ SendControlResponse(OP_ACK, "PONG", NoStatus)
  /\ pc' = "top"
  /\ UNCHANGED <<stop_event, stream_thread, threads, frequency, sample_per_block,
                 channels_to_serve, config_accepted>>

\* variant: an unknown opcode is only logged, no response is written
HandleUnknown_Silent ==
  /\ UNCHANGED <<nresp, last_resp>>
  /\ pc' = "top"
  /\ UNCHANGED <<stop_event, stream_thread, threads, frequency, sample_per_block,
                 channels_to_serve, config_accepted>>

HandleUnknown ==
  /\ SendControlResponse(OP_ERR, "unknown_opcode", NoStatus)
  /\ pc' = "top"
  /\ UNCHANGED <<stop_event, stream_thread, threads, frequency, sample_per_block,
                 channels_to_serve, config_accepted>>

\* one pass of the loop body once connected: read one control frame and
\* dispatch it (the blocking recv waits for the client's next frame)
Recv ==
  /\ pc = "top"
  /\ is_server_running
  /\ is_connected
  /\ ctrl_in # NoFrame
  /\ LET f == ctrl_in
     IN  IF ProtocolViolation(f)
           THEN /\ Raise("ConnectionError")
                /\ UNCHANGED <<nreq, last_req>>
         ELSE /\ nreq' = nreq + 1
              /\ last_req' = f
              /\ IF PayloadRaises(f) THEN Raise("JSONDecodeError")
                 ELSE IF ConversionRaises(f) THEN SetConfigRaises(f)
                 ELSE /\ ctrl_in' = NoFrame
                      /\ last_error' = last_error
                      /\ UNCHANGED <<are_sockets_initialized, control_socket,
                                     control_connection, control_addr, data_socket,
                                     data_addr, open_conns, backlog, dgram_in, client>>
                      /\ CASE f.operational_code = OP_SET_CONFIG -> HandleSetConfig(f)
                           [] f.operational_code = OP_START -> HandleStart
                           [] f.operational_code = OP_STOP -> HandleStop
                           [] f.operational_code = OP_GET_STATUS -> HandleGetStatus
                           [] f.operational_code = OP_PING -> HandlePing
                           [] OTHER -> HandleUnknown
  /\ UNCHANGED <<decvars, tcpvars, libvars, simvars, is_server_running, sequence_id, data_simulator_current_data,
                 frames_sent, session_first_seq>>

\* STOP: the join has returned (the streamer ended, or the 1 s timeout
\* expired), the ACK is written
StopJoined ==
  /\ pc = "stop_join"
  /\ SendControlResponse(OP_ACK, "STREAMING_STOPPED", NoStatus)
  /\ pc' = "top"
  /\ UNCHANGED <<decvars, tcpvars, libvars, simvars, emuvars, threads, netvars, nreq, last_req, frames_sent,
                 session_first_seq, config_accepted, last_error>>

\* _stop_listening: the join has returned, the rest of the teardown runs
TeardownJoined ==
  /\ pc = "teardown_join"
  /\ CloseSession
  /\ pc' = "top"
  /\ UNCHANGED <<decvars, tcpvars, libvars, simvars, is_server_running, stop_event, stream_thread, frequency,
                 sample_per_block, channels_to_serve, sequence_id,
                 data_simulator_current_data, threads, obsvars>>

\* ------------------------------------------------------------- streamer
streamer_unchanged ==
  UNCHANGED <<decvars, tcpvars, libvars, simvars, is_server_running, are_sockets_initialized, control_socket,
              control_connection, control_addr, data_socket, data_addr, stop_event,
              stream_thread, frequency, sample_per_block, channels_to_serve,
              data_simulator_current_data, pc, netvars, nreq, nresp, last_req,
              last_resp, config_accepted, last_error>>

\* entry of _stream_data_loop
StreamBegin(t) ==
  /\ threads[t].pc = "start"
  /\ threads' = [threads EXCEPT ![t] =
       IF control_addr = 0 THEN [NoThread EXCEPT !.pc = "done"]
       ELSE [NoThread EXCEPT !.pc = "loop"]]
  /\ UNCHANGED <<sequence_id, frames_sent, session_first_seq>>
  /\ streamer_unchanged

\* the loop test sees the stop event set: the thread ends
StreamExit(t) ==
  /\ threads[t].pc = "loop"
  /\ stop_event = "set"
  /\ threads' = [threads EXCEPT ![t] = [NoThread EXCEPT !.pc = "done"]]
  /\ UNCHANGED <<sequence_id, frames_sent, session_first_seq>>
  /\ streamer_unchanged

\* a new block is seen (its last timestamp differs from the one of the last
\* frame) and the sequence id is incremented; with no block yet
\* data[-1, 0] raises and without a new block the loop sleeps: both leave the
\* state as it is
StreamNewBlock(t) ==
  /\ threads[t].pc = "loop"
  /\ stop_event # "set"
  /\ data_simulator_current_data # 0
  /\ threads[t].last_frame_timestamp # data_simulator_current_data
  /\ sequence_id' = SeqNext(sequence_id)
  /\ threads' = [threads EXCEPT ![t].pc = "slice",
                                ![t].data = data_simulator_current_data]
  /\ UNCHANGED <<frames_sent, session_first_seq>>
  /\ streamer_unchanged

\* data_blocks: the time column followed by data[:, self._channels_to_serve];
\* an IndexError is caught by the loop's except and the loop goes on,
\* last_frame_timestamp unchanged
StreamSlice(t) ==
  /\ threads[t].pc = "slice"
  /\ threads' = [threads EXCEPT ![t] =
       IF CanSlice(channels_to_serve)
         THEN [@ EXCEPT !.pc = "pack", !.columns = <<0>> \o channels_to_serve]
         ELSE [@ EXCEPT !.pc = "loop", !.data = 0]]
  /\ UNCHANGED <<sequence_id, frames_sent, session_first_seq>>
  /\ streamer_unchanged

\* the header is packed from the fields as they are now
StreamPack(t) ==
  /\ threads[t].pc = "pack"
  /\ threads' = [threads EXCEPT ![t].pc = "send",
       ![t].packet = [sequence_id |-> sequence_id,
                      sample_count |-> sample_per_block,
                      channel_count |-> Len(channels_to_serve) + 1,
                      rows |-> time_vector_template_len,
                      columns |-> threads[t].columns]]
  /\ UNCHANGED <<sequence_id, frames_sent, session_first_seq>>
  /\ streamer_unchanged

\* sendto if the data target is known; sendto raises on a closed socket and
\* the except branch skips the update of last_frame_timestamp
StreamSend(t) ==
  /\ threads[t].pc = "send"
  /\ LET sends == data_addr # 0 /\ data_socket = "open"
         raises == data_addr # 0 /\ data_socket # "open"
     IN  /\ threads' = [threads EXCEPT ![t] =
              [NoThread EXCEPT !.pc = "loop",
                 !.last_frame_timestamp =
                    IF raises THEN threads[t].last_frame_timestamp
                    ELSE threads[t].data]]
         /\ frames_sent' = IF sends THEN (frames_sent + 1) % SeqMod ELSE frames_sent
         /\ session_first_seq' =
              IF sends /\ session_first_seq = -1 THEN threads[t].packet.sequence_id
              ELSE session_first_seq
  /\ UNCHANGED sequence_id
  /\ streamer_unchanged

\* ------------------------------------------------------ specifications
Dispatcher == Run \/ StartListening \/ Recv \/ StopJoined \/ TeardownJoined

Streamer ==
  \E t \in Threads :
    \/ StreamBegin(t)
    \/ StreamExit(t)
    \/ StreamNewBlock(t)
    \/ StreamSlice(t)
    \/ StreamPack(t)
    \/ StreamSend(t)

Environment ==
  \/ \E c \in Clients : Connect(c)
  \/ \E c \in Clients : SendDatagram(c)
  \/ \E c \in Clients, f \in ClientFrames : SendControl(c, f)

Next == Dispatcher \/ Streamer \/ Sample \/ Environment

Spec == Init /\ [][Next]_vars

EnvironmentLive ==
  \/ \E c \in Clients : Connect(c)
  \/ \E c \in Clients : SendDatagram(c)
  \/ \E c \in Clients, f \in LiveFrames : SendControl(c, f)

NextLive == Dispatcher \/ Streamer \/ Sample \/ EnvironmentLive

\* the dispatcher and the streamer threads are threads of a running process
FairSpec == Init /\ [][NextLive]_vars /\ WF_vars(Dispatcher) /\ WF_vars(Streamer)

\* ------------------------------------------------------------ shutdown
\* KeyboardInterrupt in the thread of run(): it is not an Exception, the
\* except branch of the loop lets it through and run() is left
Interrupt ==
  /\ pc \in {"top", "stop_join", "teardown_join"}
  /\ is_server_running
  /\ pc' = "dispose"
  /\ UNCHANGED <<decvars, tcpvars, libvars, simvars, emuvars, threads, netvars, obsvars>>

\* dispose(): _stop_listening() up to the join of the streamer
Dispose ==
  /\ pc = "dispose"
  /\ stop_event' = StopEventAfterStop
  /\ IF MustJoin
       THEN /\ pc' = "dispose_join"
            /\ UNCHANGED <<are_sockets_initialized, control_socket, control_connection,
                           control_addr, data_socket, data_addr, netvars>>
       ELSE /\ pc' = "dispose_sockets"
            /\ CloseSession
  /\ UNCHANGED <<decvars, tcpvars, libvars, simvars, is_server_running, stream_thread,
                 frequency, sample_per_block, channels_to_serve, sequence_id,
                 data_simulator_current_data, threads, obsvars>>

\* variant: the join of the streamer, when it times out, leaves the sockets open
DisposeJoined_KeepsSockets ==
  /\ pc = "dispose_join"
  /\ pc' = "dispose_sockets"
  /\ IF RunningStreamers = {}
       THEN CloseSession
       ELSE UNCHANGED <<are_sockets_initialized, control_socket, control_connection,
                        control_addr, data_socket, data_addr, netvars>>
  /\ UNCHANGED <<decvars, tcpvars, libvars, simvars, is_server_running, stop_event,
                 stream_thread, frequency, sample_per_block, channels_to_serve,
                 sequence_id, data_simulator_current_data, threads, obsvars>>

\* the join has returned (the streamer ended, or the 1 s timeout expired),
\* the rest of _stop_listening runs
DisposeJoined ==
  /\ pc = "dispose_join"
  /\ pc' = "dispose_sockets"
  /\ CloseSession
  /\ UNCHANGED <<decvars, tcpvars, libvars, simvars, is_server_running, stop_event,
                 stream_thread, frequency, sample_per_block, channels_to_serve,
                 sequence_id, data_simulator_current_data, threads, obsvars>>

\* the references to the sockets are dropped and the sampler is told to stop
DisposeSockets ==
  /\ pc = "dispose_sockets"
  /\ control_socket' = "None"
  /\ data_socket' = "None"
  /\ data_simulator_stop_event' = "set"
  /\ pc' = "dispose_sampler_join"
  /\ UNCHANGED <<decvars, tcpvars, libvars, data_simulator_thread, is_server_running,
                 are_sockets_initialized, control_connection, control_addr, data_addr,
                 stop_event, stream_thread, frequency, sample_per_block,
                 channels_to_serve, sequence_id, data_simulator_current_data,
                 threads, netvars, obsvars>>

\* the join of the sampler has returned (it ended, or the 1 s timeout expired)
DisposeDone ==
  /\ pc = "dispose_sampler_join"
  /\ is_server_running' = FALSE
  /\ pc' = "disposed"
  /\ UNCHANGED <<decvars, tcpvars, libvars, simvars, are_sockets_initialized,
                 control_socket, control_connection, control_addr, data_socket,
                 data_addr, stop_event, stream_thread, frequency, sample_per_block,
                 channels_to_serve, sequence_id, data_simulator_current_data,
                 threads, netvars, obsvars>>

\* the loop test of _simulate_data sees its stop event set: the thread ends
SamplerExit ==
  /\ data_simulator_thread = "alive"
  /\ data_simulator_stop_event = "set"
  /\ data_simulator_thread' = "done"
  /\ UNCHANGED <<decvars, tcpvars, libvars, data_simulator_stop_event, emuvars, thrvars,
                 netvars, obsvars>>

Shutdown == Dispose \/ DisposeJoined \/ DisposeSockets \/ DisposeDone

\* the frames of the runs that end with dispose(): what makes the emulator
\* stream and stop streaming, and the end of the client's stream
ShutdownFrames ==
  {Command(OP_SET_CONFIG, CfgCh0), Command(OP_START, NoJson),
   Command(OP_STOP, NoJson), EofInHeader}

EnvironmentShutdown ==
  \/ \E c \in Clients : Connect(c)
  \/ \E c \in Clients : SendDatagram(c)
  \/ \E c \in Clients, f \in ShutdownFrames : SendControl(c, f)

NextShutdown ==
  Dispatcher \/ Streamer \/ Sample \/ EnvironmentShutdown \/ Interrupt \/ Shutdown
    \/ SamplerExit

\* the emulator run by a script that calls dispose() when run() is left
SpecShutdown ==
  /\ Init
  /\ [][NextShutdown]_vars
  /\ WF_vars(Dispatcher)
  /\ WF_vars(Streamer)
  /\ WF_vars(Shutdown)
  /\ WF_vars(SamplerExit)

\* the decoder fed with datagrams
DecNext ==
  /\ \E f \in DataFrames : Feed(f)
  /\ UNCHANGED <<emuvars, simvars, thrvars, netvars, obsvars, tcpvars, libvars>>

SpecDecoder == Init /\ [][DecNext]_vars

\* the legacy client polling a device
TcpNext ==
  /\ \/ \E ok \in BOOLEAN : TcpConnect(ok)
     \/ TcpDisconnect
     \/ \E reply \in Replies, sent \in BOOLEAN : get_next_data(reply, sent)
  /\ UNCHANGED <<decvars, emuvars, simvars, thrvars, netvars, obsvars, libvars>>

SpecLegacy == Init /\ [][TcpNext]_vars

\* the legacy client reading the responses of a device from the stream
StreamNext ==
  /\ \/ \E ok \in BOOLEAN : TcpConnect(ok)
     \/ \E header \in HeaderChunks, data \in BodyChunks : ReadResponse(header, data)
  /\ UNCHANGED <<decvars, emuvars, simvars, thrvars, netvars, obsvars, libvars>>

SpecLegacyStream == Init /\ [][StreamNext]_vars

\* the collector: its worker polling the legacy client, and the thread that
\* starts and stops it and reads the live window
CollectorMain ==
  \/ StartSetsRunning \/ StartStartsThread \/ StartClears
  \/ Stop
  \/ UpdateTestsLength \/ UpdateComputesIndex \/ UpdateSlices
CollectorWorker ==
  \/ RunTestsRunning
  \/ RunAddReads
  \/ RunAddWrites
ColNext ==
  \/ /\ CollectorMain \/ CollectorWorker
     /\ UNCHANGED <<decvars, emuvars, simvars, thrvars, netvars, obsvars, tcpvars,
                    clivars, codvars, mockvars>>
  \/ /\ \E reply \in DeviceReplies, width \in BlockWidths : RunGetsData(reply, width)
     /\ UNCHANGED <<decvars, emuvars, simvars, thrvars, netvars, obsvars, clivars, codvars, mockvars>>
  \/ /\ \E ok \in BOOLEAN : TcpConnect(ok)
     /\ UNCHANGED <<decvars, emuvars, simvars, thrvars, netvars, obsvars, libvars>>

SpecCollector == Init /\ [][ColNext]_vars

\* the steps of the worker thread
ColWorker ==
  \/ /\ CollectorWorker
     /\ UNCHANGED <<decvars, emuvars, simvars, thrvars, netvars, obsvars, tcpvars,
                    clivars, codvars, mockvars>>
  \/ /\ \E reply \in DeviceReplies, width \in BlockWidths : RunGetsData(reply, width)
     /\ UNCHANGED <<decvars, emuvars, simvars, thrvars, netvars, obsvars, clivars, codvars, mockvars>>

\* the worker is a thread of a running process
FairSpecCollector == Init /\ [][ColNext]_vars /\ WF_vars(ColWorker)

\* the clients' connection management
CliNext ==
  /\ \E c \in ClientKinds :
        \/ \E ok \in BOOLEAN : CallConnect(c, ok)
        \/ CallDisconnect(c)
        \/ \E ok \in BOOLEAN : CallSend(c, ok)
  /\ UNCHANGED <<decvars, emuvars, simvars, thrvars, netvars, obsvars, codvars, colvars, mockvars>>

SpecClients == Init /\ [][CliNext]_vars

\* the wire formats, each run applying one of them to one value
CodecNext ==
  /\ codec_call = NoCall
  /\ \/ \E commands \in Matrices : RequestRoundTrip(commands)
     \/ \E op \in OP_SET_CONFIG..OP_ERR, payload \in PayloadBytes :
          ControlRoundTrip(op, payload)
     \/ \E op \in OP_SET_CONFIG..OP_ERR : CommandRoundTrip(op)
  /\ UNCHANGED <<decvars, emuvars, simvars, thrvars, netvars, obsvars, tcpvars, clivars, colvars, mockvars>>

SpecCodec == Init /\ [][CodecNext]_vars

\* the legacy emulator serving a polling client
mocker_unchanged ==
  UNCHANGED <<decvars, emuvars, simvars, thrvars, netvars, obsvars, tcpvars,
              clivars, codvars, colvars>>

Mocker == (MockerAccept \/ ListenAndServe) /\ mocker_unchanged

MockerNext ==
  \/ Mocker
  \/ (\E commands \in RequestCommands : ClientRequest(commands)) /\ mocker_unchanged
  \/ ClientCloses /\ mocker_unchanged

\* the loop of _start_listening is the thread of a running process
SpecLegacyEmulator == Init /\ [][MockerNext]_vars /\ WF_vars(Mocker)

\* =====================================================================
\* Properties
\* =====================================================================

\* C1: for any sequence of well-formed data frames fed to the decoder with
\* the returned id threaded back, a frame whose id equals or is behind the
\* last accepted id is discarded: the accepted ids are strictly increasing.
C1_AcceptedStrictlyIncreasing ==
  AllWellFormed =>
    \A i, j \in 1..Len(AcceptedIds) : i < j => AcceptedIds[i] < AcceptedIds[j]

HalfSeqMod == SeqMod \div 2
Distance(s, last) == (s - last) % SeqMod
\* C2: with a last accepted id, a well-formed frame with another id s is
\* accepted iff the unsigned distance (s - last) mod 2^32 is below 2^31; so
\* the frame after the wrap-around (last = 2^32 - 1, s = 0) is accepted and a
\* frame half the id space or more ahead is rejected.
C2_AcceptedIffForwardDistance ==
  AllWellFormed =>
    \A i \in 2..Len(dec_fed) :
      LET last == dec_out[i - 1].seq
          s == dec_fed[i].sequence_id
      IN  (last >= 0 /\ s # last) =>
             (dec_out[i].data <=> Distance(s, last) \in 1..(HalfSeqMod - 1))

MidFrame(t) == threads[t].pc \in {"slice", "pack", "send"}
\* C3: the sequence id counts the data frames sent: whenever no streamer is
\* in the middle of a frame (in particular after STOP), sequence_id equals
\* the number of data frames emitted (mod 2^32).
C3_SequenceIdCountsFrames ==
  (\A t \in Threads : ~MidFrame(t)) => sequence_id = frames_sent

\* C4: in a session made of an accepted SET_CONFIG followed by START, the
\* first data frame emitted after them carries sequence id 1, also in a
\* session that follows an earlier session.
C4_FirstFrameHasSequenceIdOne ==
  [][(/\ config_accepted
      /\ nreq = 2
      /\ last_req.operational_code = OP_START
      /\ session_first_seq = -1
      /\ session_first_seq' # -1) => session_first_seq' = 1]_vars

\* the response frame that answers a request frame
Answers(req, resp) ==
  CASE req = NoFrame -> resp = NoResponse
    [] req # NoFrame /\ req.operational_code = OP_SET_CONFIG ->
         resp.operational_code = OP_ACK /\ resp.payload = "OK"
    [] req # NoFrame /\ req.operational_code = OP_START ->
         resp.operational_code = OP_ACK /\ resp.payload = "STREAMING_STARTED"
    [] req # NoFrame /\ req.operational_code = OP_STOP ->
         resp.operational_code = OP_ACK /\ resp.payload = "STREAMING_STOPPED"
    [] req # NoFrame /\ req.operational_code = OP_GET_STATUS ->
         resp.operational_code = OP_ACK /\ resp.payload = "STATUS"
    [] req # NoFrame /\ req.operational_code = OP_PING ->
         resp.operational_code = OP_ACK /\ resp.payload = "PONG"
    [] OTHER -> resp.operational_code = OP_ERR /\ resp.payload = "unknown_opcode"
StartWaitsWithoutTarget ==
  /\ control_connection # 0
  /\ data_addr = 0
  /\ ctrl_in = Command(OP_START, NoJson)
\* C6: a START that reaches the emulator on an accepted control connection
\* is answered also while the datagram target is not known (with
\* ERR("missing_udp_target")).
C6_StartAnsweredWithoutTarget ==
  StartWaitsWithoutTarget ~> (nresp > 0 /\ last_req = Command(OP_START, NoJson))

\* C7: once ACK("STREAMING_STOPPED") is written the streamer has terminated:
\* no data frame is sent as long as that ACK is the last response of the
\* session (no later START).
C7_NoFrameAfterStopAck ==
  [][(control_connection # 0 /\ last_resp.payload = "STREAMING_STOPPED")
       => frames_sent' = frames_sent]_vars

\* C8: the streaming flag is true only if a SET_CONFIG has been accepted
\* since the current session began.
C8_StreamingOnlyAfterSetConfig == is_streaming => config_accepted

\* C9: the emulator holds at most one accepted control connection, the one
\* of the current session; a connection is accepted only while none is held,
\* and a client waiting in the listen queue is not served meanwhile.
C9_AtMostOneConnection ==
  /\ [](/\ Cardinality(open_conns) <= 1
        /\ \A c \in open_conns : c = control_connection
        /\ \A i \in 1..Len(backlog) :
              backlog[i] \notin open_conns /\ client[backlog[i]] = "pending")
  /\ [][open_conns' # open_conns /\ open_conns' # {}
          => (open_conns = {} /\ control_connection = 0)]_vars
\* a state in which the case of C9 has happened
C9_Witness ==
  /\ control_connection # 0
  /\ open_conns = {control_connection}
  /\ backlog # <<>>
  /\ nresp > 0

ViolationPending ==
  /\ pc = "top"
  /\ is_connected
  /\ ctrl_in \in ViolationFrames
ListeningAgain ==
  /\ control_connection = 0
  /\ are_sockets_initialized
  /\ control_socket = "open"
\* C10: a protocol violation on the control stream (bad magic, bad version,
\* end-of-stream in a header or payload) ends the session without a response
\* frame, and afterwards the acceptor resumes: the emulator is listening
\* again and accepts the next client.
C10_ViolationEndsSessionAcceptorResumes ==
  /\ [][(ViolationPending /\ ctrl_in' # ctrl_in)
          => /\ nresp' = nresp
             /\ control_connection' = 0 \/ pc' = "teardown_join"]_vars
  /\ ViolationPending ~> ListeningAgain
  /\ (ListeningAgain /\ backlog # <<>>) ~> (control_connection # 0)
\* a state in which the case of C10 has happened
C10_Witness ==
  /\ client[1] = "closed"
  /\ last_error = "ConnectionError"
  /\ nresp = 0
  /\ control_connection = 2
  /\ control_socket = "open"

\* the dispatcher reads the control frame f in this step
Reads(f) ==
  /\ pc = "top"
  /\ is_connected
  /\ ctrl_in = f
  /\ ctrl_in' # ctrl_in
ConfigUnchanged ==
  /\ frequency' = frequency
  /\ sample_per_block' = sample_per_block
  /\ channels_to_serve' = channels_to_serve
\* C11: a SET_CONFIG frame whose payload is not valid JSON is answered with
\* one ERR response frame, and frequency, samples per block and the channel
\* set are left unchanged.
C11_BadJsonAnsweredErr ==
  [][Reads(Command(OP_SET_CONFIG, NoJson))
       => /\ nresp' = nresp + 1
          /\ last_resp'.operational_code = OP_ERR
          /\ ConfigUnchanged]_vars

\* C12: a well-formed control frame whose opcode is none of SET_CONFIG,
\* START, STOP, GET_STATUS, PING is answered with ERR("unknown_opcode"); the
\* session stays open and frequency, samples per block, channel set,
\* streaming flag and sequence id are unchanged by the handling.
C12_UnknownOpcodeAnsweredErr ==
  [][Reads(Command(UnknownOpcode, NoJson))
       => /\ nresp' = nresp + 1
          /\ last_resp' = Response(OP_ERR, "unknown_opcode", NoStatus)
          /\ control_connection' = control_connection
          /\ open_conns' = open_conns
          /\ pc' = "top"
          /\ ConfigUnchanged
          /\ stop_event' = stop_event
          /\ sequence_id' = sequence_id]_vars
\* a state in which the case of C12 has happened
C12_Witness ==
  /\ control_connection # 0
  /\ nresp = 2
  /\ last_req = Command(UnknownOpcode, NoJson)
  /\ last_resp.payload = "unknown_opcode"
  /\ is_streaming

\* the columns of the sampler's block that a SET_CONFIG channel list selects
\* (column 0 of a block is time)
ColumnsOf(channels) == [i \in 1..Len(channels) |-> channels[i] + 1]
\* C13: SET_CONFIG with a JSON payload applies only the fields supplied:
\* each of frequency, samples per block and channel set whose key is absent
\* keeps its previous value, a supplied frequency or channel list is taken
\* over, keys the handler does not know change nothing, and the answer is
\* ACK("OK").  The payloads are the JSON objects whose supplied values are
\* integers; a value that int() refuses is the case of C38.
C13_SetConfigAppliesOnlySupplied ==
  [][\A p \in Payloads \ {NoJson} :
       (Reads(Command(OP_SET_CONFIG, p))
          /\ ~ConversionRaises(Command(OP_SET_CONFIG, p)))
         => /\ nresp' = nresp + 1
            /\ last_resp' = Response(OP_ACK, "OK", NoStatus)
            /\ frequency' = IF p.has_frequency THEN p.frequency ELSE frequency
            /\ (~p.has_sample_per_block /\ ~p.has_samples_per_block)
                  => sample_per_block' = sample_per_block
            /\ channels_to_serve' =
                  IF p.has_channels THEN ColumnsOf(p.channels) ELSE channels_to_serve
            /\ p = CfgUnknownKey => ConfigUnchanged]_vars
\* a state in which the case of C13 has happened
C13_Witness ==
  /\ control_connection # 0
  /\ nresp = 2
  /\ last_req = Command(OP_SET_CONFIG, CfgFreqSpb)
  /\ last_resp.payload = "OK"
  /\ frequency = 100
  /\ channels_to_serve = <<1>>

C15_GetStatusReportsState ==
  [][Reads(Command(OP_GET_STATUS, NoJson))
       => /\ nresp' = nresp + 1
          /\ last_resp'.operational_code = OP_ACK
          /\ last_resp'.status.is_streaming = is_streaming
          /\ last_resp'.status.frequency = frequency
          /\ last_resp'.status.sample_per_block = sample_per_block
          /\ last_resp'.status.sequence_id = sequence_id
          /\ \A p \in Payloads :
                (p.has_channels /\ last_req = Command(OP_SET_CONFIG, p))
                   => last_resp'.status.channels = p.channels
          /\ ConfigUnchanged
          /\ stop_event' = stop_event
          /\ sequence_id' = sequence_id
          /\ control_connection' = control_connection]_vars

UdpPortWaitsWithoutDatagram ==
  /\ control_connection # 0
  /\ data_addr = 0
  /\ ctrl_in = Command(OP_SET_CONFIG, CfgOtherKeys)
\* C16: the datagram target is determined in both ways.  A SET_CONFIG that
\* carries udp_port is served (and sets the target to the control peer) also
\* when the client never sends a datagram; without udp_port the target is
\* the sender of the first datagram received on the data port.
C16_TargetFromUdpPortOrDatagram ==
  /\ UdpPortWaitsWithoutDatagram
       ~> (/\ nresp > 0
           /\ last_req = Command(OP_SET_CONFIG, CfgOtherKeys)
           /\ data_addr # 0)
  /\ [][(data_addr = 0 /\ data_addr' # 0 /\ ctrl_in # Command(OP_SET_CONFIG, CfgOtherKeys))
          => (dgram_in # <<>> /\ data_addr' = Head(dgram_in))]_vars

\* the channel list in force was selected by a SET_CONFIG
SelectedBySetConfig ==
  \E p \in Payloads : p.has_channels /\ channels_to_serve = ColumnsOf(p.channels)
\* the streamer t sends a data frame in this step
Emits(t) == threads[t].pc = "send" /\ frames_sent' # frames_sent
\* C17: once SET_CONFIG has selected a channel set S (indices in [0, 44]),
\* the streamer keeps building frames (taking the columns of S out of a
\* block never fails), and every data frame sent has channel_count = |S| + 1
\* and holds the time column followed by the channels of S in order.
C17_FramesProjectSelectedChannels ==
  [][\A t \in Threads :
       /\ (SelectedBySetConfig /\ threads[t].pc = "slice" /\ threads'[t].pc # "slice")
            => /\ threads'[t].pc = "pack"
               /\ threads'[t].columns = <<0>> \o channels_to_serve
       /\ (SelectedBySetConfig /\ Emits(t))
            => /\ threads[t].packet.channel_count = Len(channels_to_serve) + 1
               /\ threads[t].packet.columns = <<0>> \o channels_to_serve]_vars

\* C18: every data frame sent is self-consistent: its payload holds
\* header.samples_per_block rows of header.channel_count values, also after
\* a SET_CONFIG changed samples per block or the channel set and when a
\* SET_CONFIG is handled while the streamer is building a frame.
C18_FrameSelfConsistent ==
  [][\A t \in Threads :
       Emits(t) => /\ threads[t].packet.sample_count = threads[t].packet.rows
                   /\ threads[t].packet.channel_count = Len(threads[t].packet.columns)]_vars

\* C19: the decoder returns no samples for every datagram whose magic is
\* not 0xDA7A, for every datagram whose version is not 1 (each whatever
\* the other field is), for a datagram shorter than the header, and for
\* one whose payload is shorter than samples x channels x 8 bytes.
C19_DecoderRejectsMalformed ==
  \A i \in 1..Len(dec_fed) :
    LET f == dec_fed[i]
    IN  /\ ~f.hdr_ok => ~dec_out[i].data
        /\ (f.hdr_ok /\ f.magic # data_magic_code) => ~dec_out[i].data
        /\ (f.hdr_ok /\ f.ver # data_version) => ~dec_out[i].data
        /\ (f.hdr_ok /\ f.payload_len < f.sample_count * f.channel_count * 8)
              => ~dec_out[i].data

\* previous_last_timestamp as the i-th call found it
RecordBefore(i) ==
  IF i = 1 THEN NoTimestamp ELSE tcp_polls[i - 1].previous_last_timestamp
\* C20: legacy poll (get_next_data): if the first timestamp of the newly
\* decoded block is less than the last timestamp of the previously returned
\* block, nothing is returned and the recorded last timestamp is unchanged;
\* otherwise the block is returned and the record becomes the block's last
\* timestamp.
C20_LegacyPollMonotonic ==
  \A i \in 1..Len(tcp_polls) :
    LET poll == tcp_polls[i]
    IN  (poll.connected /\ poll.reply \in Blocks) =>
          IF RecordBefore(i) # NoTimestamp
               /\ poll.reply.first_timestamp < RecordBefore(i)
            THEN /\ poll.output = NoBlock
                 /\ poll.previous_last_timestamp = RecordBefore(i)
            ELSE /\ poll.output = poll.reply
                 /\ poll.previous_last_timestamp = poll.reply.last_timestamp
\* a state in which the case of C20 has happened: a block ending at 2 was
\* returned, the next one starting at 1 was dropped, the record is still 2
C20_Witness ==
  /\ Len(tcp_polls) = 2
  /\ tcp_polls[1].output = Block(0, 2)
  /\ tcp_polls[2].connected
  /\ tcp_polls[2].reply = Block(1, 2)
  /\ tcp_polls[2].output = NoBlock
  /\ previous_last_timestamp = 2

\* C21: after the collector has appended blocks returned by the client, each
\* block strictly increasing in time, the time column of the buffer is strictly
\* increasing: no two rows share a timestamp and no row is earlier than the
\* row before it.
C21_TimeColumnStrictlyIncreasing ==
  \A i \in 1..(Len(col_data.rows) - 1) :
    col_data.rows[i].timestamp < col_data.rows[i + 1].timestamp

\* C22: when a socket failure occurs during a legacy poll, while the request is
\* sent or while the response is received, the poll returns None and the client
\* keeps its socket and its recorded last timestamp; a poll of a disconnected
\* client returns None and sends nothing.
C22_SocketFailureLeavesClientUsable ==
  \A i \in 1..Len(tcp_polls) :
    LET poll == tcp_polls[i]
    IN  /\ (poll.connected /\ (~poll.sent \/ poll.reply.kind = "socket.error")) =>
              /\ poll.output = NoBlock
              /\ poll.socket = "open"
              /\ poll.previous_last_timestamp = RecordBefore(i)
        /\ ~poll.connected =>
              /\ poll.output = NoBlock
              /\ ~poll.sent
              /\ poll.socket = "None"
              /\ poll.previous_last_timestamp = RecordBefore(i)

\* C23: disconnect() is idempotent: from any state of a client, the call leaves
\* the client with no socket and returns true, the first time and every time
\* after it.
C23_DisconnectIdempotent ==
  \A i \in 1..Len(client_calls) :
    client_calls[i].op = "disconnect" =>
      /\ client_calls[i].result = "True"
      /\ client_calls[i].socket = "None"

\* C24: connect() of the split client writes SET_CONFIG and then START on the
\* control stream and reads an ACK for each before it returns true; when a
\* step fails it returns false and the client holds no socket.
C24_ConnectConfiguresAndStarts ==
  \A i \in 1..Len(client_calls) :
    LET call == client_calls[i]
    IN  (call.client = "UdpPedalDevice" /\ call.op = "connect") =>
          \/ call.result = "True" /\ call.wrote = <<OP_SET_CONFIG, OP_START>>
          \/ call.result = "False" /\ call.socket = "None"

\* C25: legacy request round trip: for every non-empty rectangular command
\* matrix with entries in 0..255, the request TcpRequestProtocol encodes (the
\* int32 count of entries, then one byte per entry, row by row) is decoded by
\* the emulator's request reader back to the same matrix.
C25_LegacyRequestRoundTrip ==
  codec_call.fn = "TcpRequestProtocol" =>
    /\ codec_call.wire =
         Pack32(Len(codec_call.input) * Len(codec_call.input[1]))
           \o command_to_bytes(codec_call.input)
    /\ codec_call.output = codec_call.input

\* C26: control-frame round trip: for every opcode in 1..7 and payload p the
\* encoded frame is the header (magic 0xC0DE, version 1, the opcode,
\* payload_len = len(p)) followed by p, and decoding it yields the same opcode
\* and payload; a command object built for an opcode serializes a frame that
\* carries that opcode.
C26_ControlFrameRoundTrip ==
  /\ codec_call.fn = "control frame" =>
       /\ codec_call.wire =
            <<192, 222, 0, 1, 0, codec_call.input.operational_code>>
              \o Pack32(Len(codec_call.input.payload)) \o codec_call.input.payload
       /\ codec_call.output = codec_call.input
  /\ codec_call.fn = "UdpCommandProtocol" =>
       /\ ~codec_call.output.raised
       /\ codec_call.output.operational_code = codec_call.input.operational_code

\* C27: start() of the collector clears the buffer: once start() has
\* returned, the buffer holds only rows of blocks appended after that call,
\* whatever the worker was doing meanwhile (no row that was in the buffer
\* before the call survives or reappears).
C27_StartClearsBuffer ==
  col_main.started = "returned" =>
    \A i \in 1..Len(col_data.rows) : ~col_data.rows[i].before_start

\* C28: stop() of the collector disables the producer loop and leaves the
\* buffer intact: the call removes or alters no row, and from its return to
\* the next start() no row is appended, whatever the worker was doing.
C28_StopLeavesBufferIntact ==
  [][/\ (col_is_running /\ ~col_is_running') => col_data' = col_data
     /\ ~col_is_running => col_data' = col_data]_vars

\* the last n rows, or all of them when there are fewer
LastRows(rows, n) ==
  SubSeq(rows, (IF Len(rows) > n THEN Len(rows) - n ELSE 0) + 1, Len(rows))
\* C29: the live-window read returns exactly the last min(window_len, row
\* count) rows of the buffer, never more than window_len rows, also when the
\* worker appends a block while the read is under way.
C29_LiveWindowIsLastRows ==
  [][(col_main.pc = "update:slice" /\ col_main'.pc = "idle") =>
        /\ col_view' = LastRows(col_data.rows, WindowLen)
        /\ Len(col_view') <= WindowLen]_vars

\* C30: the column count of the buffer is fixed for its lifetime (1 + the
\* channel count) across add_data, clear, start and stop; adding a block of
\* another width fails and leaves the rows and the width of the buffer as they
\* were.
C30_BufferWidthFixed ==
  /\ [](col_data.width = 1 + columns_count)
  /\ [][(col_thread.pc = "add:read" /\ col_thread'.pc # "add:read"
          /\ col_thread.data.width # col_data.width) =>
            /\ col_thread'.pc = "dead"
            /\ col_data' = col_data]_vars
\* a state in which the case of C30 has happened: the worker got a block of
\* 42 columns while the buffer held rows; it ended and the rows are still there
C30_Witness ==
  /\ col_thread.pc = "dead"
  /\ Len(col_data.rows) > 0
  /\ col_data.width = 43

\* C40: the recorded last timestamp of the legacy client survives a
\* reconnection: disconnect() and connect() leave it unchanged, so a block
\* that starts below the record held after the previous poll is dropped
\* (and the record kept) whatever happened to the socket in between.
C40_RecordSurvivesReconnect ==
  /\ [](\A i \in 1..(Len(tcp_polls) - 1) :
          LET p == tcp_polls[i]
              q == tcp_polls[i + 1]
          IN  (/\ q.connected
               /\ q.reply \in Blocks
               /\ p.previous_last_timestamp # NoTimestamp
               /\ q.reply.first_timestamp < p.previous_last_timestamp)
                => /\ q.output = NoBlock
                   /\ q.previous_last_timestamp = p.previous_last_timestamp)
  /\ [][tcp_socket' # tcp_socket
          => previous_last_timestamp' = previous_last_timestamp]_vars
\* a block was returned, the client was polled while disconnected, and after
\* the reconnection a block below the record was dropped
C40_Witness ==
  /\ Len(tcp_polls) = 3
  /\ tcp_polls[1].output \in Blocks
  /\ ~tcp_polls[2].connected
  /\ tcp_polls[3].connected
  /\ tcp_polls[3].reply \in Blocks
  /\ tcp_polls[3].reply.first_timestamp < tcp_polls[1].previous_last_timestamp
  /\ tcp_polls[3].output = NoBlock
  /\ previous_last_timestamp = tcp_polls[1].previous_last_timestamp

\* the id the decoder was given with the i-th datagram
GivenId(i) == IF i = 1 THEN NoneSeq ELSE dec_out[i - 1].seq
\* C36: a datagram the decoder rejects is dropped silently: no array is
\* returned, the id handed back is the id that was passed in (-1 when None
\* was passed in: both stand for "nothing accepted yet"), and the decoder
\* answers every later datagram as if the rejected one had not been fed.
C36_RejectedFrameLeavesIdUnchanged ==
  \A i \in 1..Len(dec_out) :
    ~dec_out[i].data
      => /\ dec_out[i].seq = (IF GivenId(i) = NoneSeq THEN -1 ELSE GivenId(i))
         /\ \A g \in DataFrames :
              deserialize(g, dec_out[i].seq) = deserialize(g, GivenId(i))
\* a frame was accepted, the next was rejected as out of order, and the
\* frame after it was accepted against the id of the first
C36_Witness ==
  /\ Len(dec_out) = 3
  /\ dec_out[1].data
  /\ dec_out[1].seq = 2
  /\ WellFormed(dec_fed[2])
  /\ ~dec_out[2].data
  /\ dec_out[2].seq = 2
  /\ dec_out[3].data
  /\ dec_out[3].seq = 3

\* C35: at most one streamer thread is running at any time, whatever the
\* sequence of START and STOP commands (a START right after a STOP whose
\* join timed out included).
C35_AtMostOneStreamer == Cardinality(RunningStreamers) <= 1

\* C38: SET_CONFIG is all-or-nothing: when the processing of its payload
\* fails part-way (a valid frequency followed by a samples-per-block or a
\* channel entry that is not an integer), none of frequency, samples per
\* block and channel list is changed.
C38_SetConfigAllOrNothing ==
  [][(pc = "top" /\ is_connected /\ ctrl_in # NoFrame /\ ctrl_in' # ctrl_in
        /\ ~ProtocolViolation(ctrl_in) /\ ConversionRaises(ctrl_in))
       => /\ frequency' = frequency
          /\ sample_per_block' = sample_per_block
          /\ channels_to_serve' = channels_to_serve]_vars

\* a session has been accepted after the teardown of an earlier one and no
\* request of it has been read yet
NewSessionBeforeStart ==
  /\ pc = "top"
  /\ control_connection # 0
  /\ data_addr # 0
  /\ nreq = 0
  /\ \E c \in Clients : client[c] = "closed"
\* C37: the teardown of a session stops the streaming: once it has completed
\* is_streaming is false, and no data frame is sent until a START of a later
\* session.
C37_TeardownStopsStreaming ==
  /\ []((pc = "top" /\ control_connection = 0 /\ ~are_sockets_initialized)
         => ~is_streaming)
  /\ [][(pc = "top" /\ control_connection = 0) => frames_sent' = frames_sent]_vars
  /\ [][NewSessionBeforeStart => frames_sent' = frames_sent]_vars

\* dispose() has returned
Disposed == pc = "disposed"
\* C31: the shutdown of the emulator terminates cleanly.  After the serving
\* loop was interrupted and dispose() has returned, the streamer and the
\* sampler eventually terminate, the control connection and both listening
\* sockets are closed, is_connected and is_streaming are false, and no data
\* frame is sent any more.
C31_ShutdownTerminatesCleanly ==
  /\ Disposed ~> (RunningStreamers = {} /\ data_simulator_thread = "done")
  /\ [](Disposed => /\ control_connection = 0
                    /\ open_conns = {}
                    /\ control_socket # "open"
                    /\ data_socket # "open"
                    /\ ~is_connected
                    /\ ~is_streaming)
  /\ [][Disposed => frames_sent' = frames_sent]_vars
\* the emulator was disposed of while it was streaming, and the streamer
\* and the sampler have ended
C31_Witness ==
  /\ Disposed
  /\ frames_sent > 0
  /\ stop_event = "set"
  /\ \E t \in Threads : threads[t].pc = "done"
  /\ RunningStreamers = {}
  /\ data_simulator_thread = "done"

\* C32: each poll of the legacy client takes exactly one whole response
\* from the stream (4 header bytes and 8 bytes for each double), also when
\* the socket hands the bytes out in short chunks: a block is never decoded
\* from fewer bytes, and every poll starts reading at a frame boundary.
C32_PollConsumesWholeFrame ==
  \A i \in 1..Len(tcp_reads) :
    /\ tcp_reads[i].start % FrameLength = 0
    /\ tcp_reads[i].output = "block"
         => tcp_reads[i].position - tcp_reads[i].start = FrameLength

\* C39: in the legacy protocol every complete request frame the emulator
\* reads is answered by exactly one response frame, whatever command list it
\* carries, so the poll of a connected client does not wait forever.
C39_EveryRequestAnswered ==
  /\ [][tcp_mocker'.requests_read = tcp_mocker.requests_read + 1
          => tcp_mocker'.responses = tcp_mocker.responses + 1]_vars
  /\ tcp_mocker.polling ~> ~tcp_mocker.polling

\* C33: the worker of the collector loses no wake-up: after stop() and then
\* start() it resumes (and appends the blocks the device delivers); it is not
\* left waiting for ever while the collector is running.
C33_WorkerResumesAfterRestart ==
  []<>~(col_is_running /\ col_main.started = "returned" /\ col_thread.pc = "waiting")

\* column 0 of the rows
Timestamps(rows) == [i \in 1..Len(rows) |-> rows[i].timestamp]
IsSuffix(tail, rows) ==
  /\ Len(tail) <= Len(rows)
  /\ SubSeq(rows, Len(rows) - Len(tail) + 1, Len(rows)) = tail
\* C34: blocks are appended atomically.  Every change of the rows of the
\* buffer is either the clear or the addition of all the rows of one block
\* at the end, so a reader sees none or all of the rows of a block; the
\* append that completes leaves its block in the buffer also when a clear
\* ran while it was under way; and the live-window read returns rows that
\* end with the last row of the buffer.
C34_BlocksAppendedAtomically ==
  [][/\ Timestamps(col_data'.rows) # Timestamps(col_data.rows)
        => \/ col_data'.rows = <<>>
           \/ /\ col_thread.pc = "add:write"
              /\ Len(col_data'.rows) >= Len(col_thread.data.rows)
              /\ IsSuffix(Timestamps(col_thread.data.rows), Timestamps(col_data'.rows))
     /\ (col_thread.pc = "add:write" /\ col_thread'.pc = "loop")
        => /\ col_thread.data.rows # <<>>
           /\ IsSuffix(col_thread.data.rows, col_data'.rows)
     /\ (col_main.pc = "update:slice" /\ col_main'.pc = "idle")
        => IsSuffix(col_view', col_data.rows)]_vars
\* start() has cleared the buffer while an append was under way, and the
\* append has completed: its block is in the buffer (behind the rows that
\* were read before the clear)
C34_Witness ==
  /\ col_main.started = "returned"
  /\ col_thread.pc = "loop"
  /\ Len(col_data.rows) >= 2
  /\ col_data.rows[1].before_start
  /\ ~col_data.rows[Len(col_data.rows)].before_start

====
